---- MODULE Spec2Model ----
(***************************************************************************)
(* Model of the persistent song queue of xoltia/mdk3 (package queue).      *)
(*                                                                         *)
(* The queue lives in an ordered key-value store (badger).  A QueueTx is   *)
(* one store transaction: it reads a snapshot taken at BeginTxn plus its   *)
(* own pending writes, remembers the keys it read, and at Commit the store *)
(* rejects it when a key it read was written by a transaction that         *)
(* committed after the snapshot was taken.                                 *)
(***************************************************************************)
EXTENDS Integers, Sequences, FiniteSets, TLC

\* ---------------------------------------------------------------- bounds
\* slot ids handed out in serial use with every input
MaxId == 3

\* slot ids handed out in serial use with a one-word word list
MaxLongId == 4

\* slot ids handed out while transactions overlap
MaxConcId == 3

\* transactions begun while transactions overlap
MaxConcTx == 4

\* queue calls made in one transaction
MaxTxOps == 1

\* ids leased from the store at a time (queue.go leases 100 at a time)
Bandwidth == 2

\* slot ids handed out over closes, crashes and reopenings
MaxLifeId == 5

\* slot ids handed out while the playback loop and the commands run
MaxAppId == 3

\* songs the predecessor queue holds at a time
MaxOldLen == 2

\* highest slug number the predecessor slug generator hands out
MaxOldSeq == 2

\* ------------------------------------------------------------- constants
\* newHandler: userLimit: 1
userLimit == 1

\* queue.go: const version uint32 = 0
version == 0

\* queue_tx.go: const headNilID = -1
headNilID == -1

\* recordType tags (queue_tx.go, const block with iota)
recordTypeQueuedSong == 0
recordTypeHead == 1
recordTypeSlugIndex == 3

\* caller-supplied payloads (NewSong values)
Payloads == {"p", "q"}

\* the word list of the slug generator; one word is a prefix of the other
Words == { <<"a">>, <<"a", "b">> }

\* transaction handles that may be open
Txs == {"t1", "t2"}

\* the handle used when transactions run one after the other
SerialTx == "t1"

\* the word list cut down to its first word
OneWord == { <<"a">> }

\* slot ids and Move positions tried when cap ids are handed out
IdsTo(cap) == 0 .. (cap - 1)
PositionsTo(cap) == -1 .. (cap - 1)

\* errors
OK == "ok"
ErrSongNotFound == "song not found"
ErrQueueEmpty == "queue is empty"
ErrMoveOutOfBounds == "move out of bounds"
ErrSongDequeued == "song has already been dequeued"
ErrKeyNotFound == "Key not found"
ErrConflict == "Transaction Conflict. Please retry"
ErrSyntax == "strconv.Atoi: invalid syntax"
ErrVersionMismatch == "version mismatch"
Panic == "panic"

\* --------------------------------------------------------------- helpers
Min(S) == CHOOSE m \in S : \A n \in S : m <= n
Max(S) == CHOOSE m \in S : \A n \in S : m >= n

\* the function f without the key k
Without(f, k) == [ j \in (DOMAIN f) \ {k} |-> f[j] ]

\* the function f with key k bound to v
With(f, k, v) == (k :> v) @@ f

\* the zero value of QueuedSong; a timestamp of 0 is the zero time (unset)
ZeroSong == [ID |-> 0, Slug |-> <<>>, Payload |-> "", QueuedAt |-> 0,
             DequeuedAt |-> 0]

\* QueuedSong.IsDequeued: the dequeued-at timestamp is set
IsDequeued(qs) == qs.DequeuedAt # 0

\* time.Now() as read inside a transaction: later than every timestamp
\* stored before, so one more than the latest dequeued-at of its view
Now(st) ==
    1 + Max({st.songs[i].DequeuedAt : i \in DOMAIN st.songs} \cup {0})

\* ------------------------------------------------------------ store keys
\* one leading tag, then the type-specific suffix (slot id or slug bytes)
HeadKey == <<recordTypeHead, -1, <<>> >>
SongKey(id) == <<recordTypeQueuedSong, id, <<>> >>
SlugKey(slug) == <<recordTypeSlugIndex, -1, slug>>

\* ------------------------------------------------ decimal text of numbers
Digits == <<"0", "1", "2", "3", "4", "5", "6", "7", "8", "9">>
Dash == "-"

DigitVal(c) == (CHOOSE i \in 1 .. 10 : Digits[i] = c) - 1
IsDigit(c) == \E i \in 1 .. 10 : Digits[i] = c

RECURSIVE Itoa(_)
\* fmt "%d" of a non-negative number
Itoa(n) == IF n < 10 THEN <<Digits[n + 1]>>
           ELSE Itoa(n \div 10) \o <<Digits[(n % 10) + 1]>>

RECURSIVE AtoiAcc(_, _)
AtoiAcc(s, acc) == IF s = <<>> THEN acc
                   ELSE AtoiAcc(Tail(s), acc * 10 + DigitVal(Head(s)))

\* strconv.Atoi: the number, or -1 for a syntax error
Atoi(s) == IF s = <<>> \/ \E i \in 1 .. Len(s) : ~IsDigit(s[i]) THEN -1
           ELSE AtoiAcc(s, 0)

\* bytes.IndexByte on a slug (0 when absent, else the 1-based index)
IndexByte(s, c) == IF \E i \in 1 .. Len(s) : s[i] = c
                   THEN Min({i \in 1 .. Len(s) : s[i] = c})
                   ELSE 0

HasPrefix(s, p) == Len(p) <= Len(s) /\ SubSeq(s, 1, Len(p)) = p

\* ------------------------------------------------- transaction primitives
\* A transaction state st holds the view (snapshot plus own writes) and the
\* keys read and written so far.
TrackRead(st, k) == [st EXCEPT !.reads = @ \cup {k}]

\* txn.Get: a key with a pending write is served from the write buffer and
\* not tracked; any other key is tracked as read, found or not
TxnGet(st, k) == IF k \in st.writes THEN st ELSE TrackRead(st, k)

\* ---------------------------------------------------------- song iterator
NoPos == -1

\* Seek on the ordered song keys K: first key >= id, or last key <= id when
\* iterating in reverse
SeekPos(K, id, reverse) ==
    LET C == IF reverse THEN {k \in K : k <= id} ELSE {k \in K : k >= id}
    IN  IF C = {} THEN NoPos ELSE IF reverse THEN Max(C) ELSE Min(C)

\* Next: the key after pos in iteration order
NextPos(K, pos, reverse) ==
    IF pos = NoPos THEN NoPos
    ELSE LET C == IF reverse THEN {k \in K : k < pos} ELSE {k \in K : k > pos}
         IN  IF C = {} THEN NoPos ELSE IF reverse THEN Max(C) ELSE Min(C)

\* seekID: iterator Seek also records the sought key as read
seekID(st, id) == TrackRead(st, SongKey(id))

\* ------------------------------------------------------------ basic writes
set(st, id, song) ==
    [st EXCEPT !.songs = With(@, id, song), !.writes = @ \cup {SongKey(id)}]

DeleteSongWrongKey(st, id) == [st EXCEPT !.writes = @ \cup {SongKey(id)}]

DeleteSong(st, id) ==
    [st EXCEPT !.songs = Without(@, id), !.writes = @ \cup {SongKey(id)}]

clearSlugIndex(st, slug) ==
    [st EXCEPT !.slugs = Without(@, slug), !.writes = @ \cup {SlugKey(slug)}]

setSlugID(st, slug, id) ==
    [st EXCEPT !.slugs = With(@, slug, id), !.writes = @ \cup {SlugKey(slug)}]

writeHead(st, head) ==
    [st EXCEPT !.head = head, !.writes = @ \cup {HeadKey}]

\* headID: Get of the head key (a missing key reads as headNilID)
headID(st) == TxnGet(st, HeadKey)

\* result of an operation: the transaction state after it, error, value
Res(st, err, val) == [st |-> st, err |-> err, val |-> val]

\* ------------------------------------------------------------ slug dedupe
\* parse of one slug-index key met by the prefix scan: 0 for a key without
\* a dash, -1 when the text after the first dash is not a number
DedupeNumber(k) ==
    LET split == IndexByte(k, Dash)
    IN  IF split = 0 THEN 0 ELSE Atoi(SubSeq(k, split + 1, Len(k)))

\* slug chosen when numberDuplicates keys matched and maxSlugDedupe is the
\* largest suffix met
dedupedSlugCount(slug, numberDuplicates, maxSlugDedupe) ==
    IF numberDuplicates = 0 THEN slug
    ELSE slug \o <<Dash>> \o Itoa(numberDuplicates)

deduplicatedSlug(slug, numberDuplicates, maxSlugDedupe) ==
    IF numberDuplicates = 0 THEN slug
    ELSE slug \o <<Dash>> \o Itoa(maxSlugDedupe + 1)

indexSlugFindNonDuplicate(st, slug, id) ==
    LET s1 == TrackRead(st, SlugKey(slug))
        found == {k \in DOMAIN st.slugs : HasPrefix(k, slug)}
        s2 == [s1 EXCEPT !.reads = @ \cup {SlugKey(k) : k \in found}]
        numbers == {DedupeNumber(k) : k \in found}
    IN  IF -1 \in numbers THEN Res(s2, ErrSyntax, <<>>)
        ELSE LET maxSlugDedupe == Max(numbers \cup {0})
                 chosen == deduplicatedSlug(slug, Cardinality(found), maxSlugDedupe)
             IN  Res(setSlugID(s2, chosen, id), OK, chosen)

\* ------------------------------------------------------------------ head
checkHeadAlways(st, id) == writeHead(headID(st), id)

checkHead(st, id) ==
    LET s1 == headID(st)
    IN  IF st.head = headNilID THEN writeHead(s1, id) ELSE s1

headSongNoEmptyCheck(st) ==
    LET s1 == headID(st)
        head == st.head
        s2 == TxnGet(s1, SongKey(head))
    IN  IF head \notin DOMAIN st.songs THEN Res(s2, ErrKeyNotFound, ZeroSong)
        ELSE Res(s2, OK, st.songs[head])

headSong(st) ==
    LET s1 == headID(st)
        head == st.head
    IN  IF head = headNilID THEN Res(s1, ErrQueueEmpty, ZeroSong)
        ELSE LET s2 == TxnGet(s1, SongKey(head))
             IN  IF head \notin DOMAIN st.songs
                 THEN Res(s2, ErrKeyNotFound, ZeroSong)
                 ELSE Res(s2, OK, st.songs[head])

updateHeadPlusOne(st, head) ==
    IF head + 1 \in DOMAIN st.songs THEN writeHead(seekID(st, head), head + 1)
    ELSE writeHead(seekID(st, head), headNilID)

updateHeadNoNext(st, head) ==
    LET K == DOMAIN st.songs
        s1 == seekID(st, head)
        nextID == SeekPos(K, head, FALSE)
    IN  IF nextID = NoPos THEN writeHead(s1, headNilID)
        ELSE writeHead(TrackRead(s1, SongKey(nextID)), nextID)

updateHead(st, head) ==
    LET K == DOMAIN st.songs
        s1 == seekID(st, head)
        nextID == NextPos(K, SeekPos(K, head, FALSE), FALSE)
    IN  IF nextID = NoPos THEN writeHead(s1, headNilID)
        ELSE writeHead(TrackRead(s1, SongKey(nextID)), nextID)

\* ------------------------------------------------------------ operations
putSong(st, seqID, slugCandidate, song) ==
    LET id == seqID
        r == indexSlugFindNonDuplicate(st, slugCandidate, id)
        queuedSong == [ID |-> id, Slug |-> r.val, Payload |-> song,
                       QueuedAt |-> 0, DequeuedAt |-> 0]
    IN  IF r.err # OK THEN Res(r.st, r.err, id)
        ELSE Res(set(r.st, id, queuedSong), OK, id)

Enqueue(st, seqID, slugCandidate, song) ==
    LET r == putSong(st, seqID, slugCandidate, song)
    IN  IF r.err # OK THEN r ELSE Res(checkHead(r.st, r.val), OK, r.val)

DequeueKeepSlug(st) ==
    LET r == headSong(st)
    IN  IF r.err # OK THEN r
        ELSE LET s1 == updateHead(r.st, r.val.ID)
                 dequeued == [r.val EXCEPT !.DequeuedAt = Now(r.st)]
             IN  Res(set(s1, r.val.ID, dequeued), OK, dequeued)

DequeueAndDelete(st) ==
    LET r == headSong(st)
    IN  IF r.err # OK THEN r
        ELSE LET s1 == updateHead(r.st, r.val.ID)
                 s2 == clearSlugIndex(s1, r.val.Slug)
                 dequeued == [r.val EXCEPT !.DequeuedAt = Now(r.st)]
             IN  Res(DeleteSong(s2, r.val.ID), OK, dequeued)

DequeueUnstamped(st) ==
    LET r == headSong(st)
    IN  IF r.err # OK THEN r
        ELSE LET s1 == updateHead(r.st, r.val.ID)
                 s2 == clearSlugIndex(s1, r.val.Slug)
             IN  Res(set(s2, r.val.ID, r.val), OK, r.val)

Dequeue(st) ==
    LET r == headSong(st)
    IN  IF r.err # OK THEN r
        ELSE LET s1 == updateHead(r.st, r.val.ID)
                 s2 == clearSlugIndex(s1, r.val.Slug)
                 dequeued == [r.val EXCEPT !.DequeuedAt = Now(r.st)]
             IN  Res(set(s2, r.val.ID, dequeued), OK, dequeued)

PeekAsDequeue(st) == Dequeue(st)

Peek(st) == headSong(st)

FindByIDRawError(st, id) ==
    LET s1 == TxnGet(st, SongKey(id))
    IN  IF id \notin DOMAIN st.songs THEN Res(s1, ErrKeyNotFound, ZeroSong)
        ELSE Res(s1, OK, st.songs[id])

FindByID(st, id) ==
    LET s1 == TxnGet(st, SongKey(id))
    IN  IF id \notin DOMAIN st.songs THEN Res(s1, ErrSongNotFound, ZeroSong)
        ELSE Res(s1, OK, st.songs[id])

FindBySlug(st, slug) ==
    LET s1 == TxnGet(st, SlugKey(slug))
    IN  IF slug \notin DOMAIN st.slugs THEN Res(s1, ErrSongNotFound, ZeroSong)
        ELSE FindByID(s1, st.slugs[slug])

RemoveKeepHead(st, id) ==
    LET r == FindByID(st, id)
    IN  IF r.err # OK THEN r
        ELSE LET s1 == IF ~IsDequeued(r.val) THEN clearSlugIndex(r.st, r.val.Slug)
                       ELSE r.st
             IN  Res(DeleteSong(headID(s1), id), OK, ZeroSong)

\* Remove that clears the slug-index entry of a dequeued record too
RemoveClearsSlugAlways(st, id) ==
    LET r == FindByID(st, id)
    IN  IF r.err # OK THEN r
        ELSE LET s1 == clearSlugIndex(r.st, r.val.Slug)
                 s2 == headID(s1)
                 s3 == IF s1.head = id THEN updateHead(s2, id) ELSE s2
             IN  Res(DeleteSong(s3, id), OK, ZeroSong)

Remove(st, id) ==
    LET r == FindByID(st, id)
    IN  IF r.err # OK THEN r
        ELSE LET s1 == IF ~IsDequeued(r.val) THEN clearSlugIndex(r.st, r.val.Slug)
                       ELSE r.st
                 s2 == headID(s1)
                 s3 == IF s1.head = id THEN updateHead(s2, id) ELSE s2
             IN  Res(DeleteSong(s3, id), OK, ZeroSong)

UpdateAsNewRecord(st, id, song) ==
    LET r == FindByID(st, id)
    IN  IF r.err # OK THEN r
        ELSE Res(set(r.st, id, [ZeroSong EXCEPT !.ID = id,
                                                !.Slug = r.val.Slug,
                                                !.Payload = song]),
                 OK, ZeroSong)

Update(st, id, song) ==
    LET r == FindByID(st, id)
    IN  IF r.err # OK THEN r
        ELSE Res(set(r.st, id, [r.val EXCEPT !.Payload = song]), OK, ZeroSong)

Empty(st) == Res(headID(st), OK, st.head = headNilID)

\* the loop of IterateFromHead without the break
iterateFromNoBreak(snap, pos, stopAt, acc) ==
    [st |-> acc.st,
     songs |-> acc.songs \o
               [i \in 1 .. Cardinality({k \in DOMAIN snap : k >= pos}) |->
                   snap[CHOOSE e \in {k \in DOMAIN snap : k >= pos} :
                          Cardinality({d \in DOMAIN snap : d >= pos /\ d < e})
                              = i - 1]]]

RECURSIVE iterateFrom(_, _, _, _)
\* the loop of IterateFromHead: f is called on every song met and returns
\* false on its stopAt-th call (never when stopAt is 0); acc is [st, songs]
iterateFrom(snap, pos, stopAt, acc) ==
    IF pos = NoPos THEN acc
    ELSE LET a1 == [st |-> TrackRead(acc.st, SongKey(pos)),
                    songs |-> Append(acc.songs, snap[pos])]
         IN  IF Len(a1.songs) = stopAt THEN a1
             ELSE iterateFrom(snap, NextPos(DOMAIN snap, pos, FALSE), stopAt,
                              a1)

\* IterateFromHead: the value is the sequence of songs f was called on
IterateFromHead(st, stopAt) ==
    LET s1 == headID(st)
    IN  IF st.head = headNilID THEN Res(s1, OK, <<>>)
        ELSE LET a == iterateFrom(st.songs,
                                  SeekPos(DOMAIN st.songs, st.head, FALSE),
                                  stopAt,
                                  [st |-> seekID(s1, st.head), songs |-> <<>>])
             IN  Res(a.st, OK, a.songs)

\* LastDequeued: the record dequeued most recently, that is the one with
\* the latest dequeued-at among the records that have one
LastDequeued(st) ==
    LET D == {i \in DOMAIN st.songs : IsDequeued(st.songs[i])}
    IN  IF D = {} THEN Res(st, ErrSongNotFound, ZeroSong)
        ELSE LET id == CHOOSE i \in D : \A j \in D :
                           st.songs[j].DequeuedAt <= st.songs[i].DequeuedAt
             IN  Res(TrackRead(st, SongKey(id)), OK, st.songs[id])

\* Count that counts every record of the store
CountAllRecords(st) ==
    Res(seekID(headID(st), 0), OK, Cardinality(DOMAIN st.songs))

RECURSIVE countFrom(_, _)
\* songIterator.count: steps until the iterator is no longer valid
countFrom(K, pos) ==
    IF pos = NoPos THEN 0 ELSE 1 + countFrom(K, NextPos(K, pos, FALSE))

Count(st) ==
    LET s1 == headID(st)
    IN  IF st.head = headNilID THEN Res(s1, OK, 0)
        ELSE Res(seekID(s1, st.head), OK,
                 countFrom(DOMAIN st.songs,
                           SeekPos(DOMAIN st.songs, st.head, FALSE)))

RECURSIVE listFrom(_, _, _, _, _)
\* the loop of List: acc is [st, songs]
listFrom(snap, pos, offset, limit, acc) ==
    IF pos = NoPos THEN acc
    ELSE IF offset > 0
         THEN listFrom(snap, NextPos(DOMAIN snap, pos, FALSE), offset - 1,
                       limit, acc)
         ELSE IF limit = 0 THEN acc
              ELSE listFrom(snap, NextPos(DOMAIN snap, pos, FALSE), offset,
                            limit - 1,
                            [st |-> TrackRead(acc.st, SongKey(pos)),
                             songs |-> Append(acc.songs, snap[pos])])

\* List that starts at the first record of the store
ListFromFirstRecord(st, offset, limit) ==
    LET s1 == headID(st)
        a == listFrom(st.songs, SeekPos(DOMAIN st.songs, 0, FALSE),
                      offset, limit, [st |-> seekID(s1, 0), songs |-> <<>>])
    IN  Res(a.st, OK, a.songs)

List(st, offset, limit) ==
    LET s1 == headID(st)
    IN  IF st.head = headNilID THEN Res(s1, OK, <<>>)
        ELSE LET a == listFrom(st.songs,
                               SeekPos(DOMAIN st.songs, st.head, FALSE),
                               offset, limit,
                               [st |-> seekID(s1, st.head), songs |-> <<>>])
             IN  Res(a.st, OK, a.songs)

\* ------------------------------------------------------------------ Move
RECURSIVE distanceLoop(_, _, _, _, _)
\* the scan of distanceFromHeadByID: every key looked at is read
distanceLoop(st, K, pos, id, distance) ==
    IF pos = NoPos THEN Res(st, ErrSongNotFound, distance)
    ELSE LET s1 == TrackRead(st, SongKey(pos))
         IN  IF pos = id THEN Res(s1, OK, distance)
             ELSE distanceLoop(s1, K, NextPos(K, pos, FALSE), id, distance + 1)

distanceFromHeadByID(st, id) ==
    LET s1 == headID(st)
    IN  IF st.head = headNilID THEN Res(s1, ErrSongNotFound, 0)
        ELSE distanceLoop(seekID(s1, st.head), DOMAIN st.songs,
                          SeekPos(DOMAIN st.songs, st.head, FALSE), id, 0)

RECURSIVE stepLoop(_, _, _, _)
\* the loop of idRelativeToHead: NoPos when the iterator runs out
stepLoop(K, pos, n, reverse) ==
    IF n = 0 THEN pos
    ELSE LET nxt == NextPos(K, pos, reverse)
         IN  IF nxt = NoPos THEN NoPos ELSE stepLoop(K, nxt, n - 1, reverse)

idByArithmetic(st, distance) ==
    LET s1 == headID(st)
        sid == st.head + distance
    IN  IF st.head = headNilID THEN Res(s1, ErrSongNotFound, 0)
        ELSE IF sid \notin DOMAIN st.songs
        THEN Res(seekID(s1, st.head), ErrMoveOutOfBounds, 0)
        ELSE Res(TrackRead(seekID(s1, st.head), SongKey(sid)), OK, sid)

idRelativeToHead(st, distance) ==
    LET s1 == headID(st)
        reverse == distance < 0
        n == IF reverse THEN -distance ELSE distance
        K == DOMAIN st.songs
    IN  IF st.head = headNilID THEN Res(s1, ErrSongNotFound, 0)
        ELSE LET start == SeekPos(K, st.head, reverse)
                 sid == stepLoop(K, start, n, reverse)
                 s2 == seekID(s1, st.head)
             IN  IF n > 0 /\ sid = NoPos THEN Res(s2, ErrMoveOutOfBounds, 0)
                 ELSE IF sid = NoPos THEN Res(s2, Panic, 0)
                 ELSE Res(TrackRead(s2, SongKey(sid)), OK, sid)

RECURSIVE shiftLoopToEnd(_, _, _, _, _, _)
shiftLoopToEnd(st, snap, pos, lastSong, id, reverse) ==
    IF pos = NoPos THEN st
    ELSE LET nextSong == snap[pos]
             lastSongWithSameID == [lastSong EXCEPT !.ID = nextSong.ID]
             s1 == set(TrackRead(st, SongKey(pos)), nextSong.ID,
                       lastSongWithSameID)
             s2 == setSlugID(s1, lastSongWithSameID.Slug, nextSong.ID)
         IN  shiftLoopToEnd(s2, snap, NextPos(DOMAIN snap, pos, reverse),
                            nextSong, id, reverse)

RECURSIVE shiftLoopKeepID(_, _, _, _, _, _)
\* the shifting loop writing each song with the slot id it came from
shiftLoopKeepID(st, snap, pos, lastSong, id, reverse) ==
    IF pos = NoPos THEN st
    ELSE LET nextSong == snap[pos]
             s1 == set(TrackRead(st, SongKey(pos)), nextSong.ID, lastSong)
             s2 == setSlugID(s1, lastSong.Slug, nextSong.ID)
         IN  IF nextSong.ID = id THEN s2
             ELSE shiftLoopKeepID(s2, snap, NextPos(DOMAIN snap, pos, reverse),
                                  nextSong, id, reverse)

RECURSIVE shiftLoopNoSlugIndex(_, _, _, _, _, _)
\* the shifting loop without the slug-index writes
shiftLoopNoSlugIndex(st, snap, pos, lastSong, id, reverse) ==
    IF pos = NoPos THEN st
    ELSE LET nextSong == snap[pos]
             lastSongWithSameID == [lastSong EXCEPT !.ID = nextSong.ID]
             s1 == set(TrackRead(st, SongKey(pos)), nextSong.ID,
                       lastSongWithSameID)
         IN  IF nextSong.ID = id THEN s1
             ELSE shiftLoopNoSlugIndex(s1, snap,
                                       NextPos(DOMAIN snap, pos, reverse),
                                       nextSong, id, reverse)

RECURSIVE shiftLoop(_, _, _, _, _, _)
\* the shifting loop of moveWithoutBoundCheck over the iterator snapshot
shiftLoop(st, snap, pos, lastSong, id, reverse) ==
    IF pos = NoPos THEN st
    ELSE LET nextSong == snap[pos]
             lastSongWithSameID == [lastSong EXCEPT !.ID = nextSong.ID]
             s1 == set(TrackRead(st, SongKey(pos)), nextSong.ID,
                       lastSongWithSameID)
             s2 == setSlugID(s1, lastSongWithSameID.Slug, nextSong.ID)
         IN  IF nextSong.ID = id THEN s2
             ELSE shiftLoop(s2, snap, NextPos(DOMAIN snap, pos, reverse),
                            nextSong, id, reverse)

moveForwardOnly(st, id, idAtNewPos, currentPosition, newPosition) ==
    IF idAtNewPos = id THEN Res(st, OK, 0)
    ELSE LET r == FindByID(st, id)
         IN  IF r.err # OK THEN Res(r.st, r.err, 0)
             ELSE LET snap == st.songs
                      K == DOMAIN snap
                      pos == SeekPos(K, idAtNewPos, FALSE)
                      s1 == seekID(r.st, idAtNewPos)
                  IN  IF pos = NoPos THEN Res(s1, Panic, 0)
                      ELSE LET s2 == shiftLoop(TrackRead(s1, SongKey(pos)), snap,
                                         NextPos(K, pos, FALSE), snap[pos],
                                         id, FALSE)
                               currentSong == [r.val EXCEPT !.ID = idAtNewPos]
                               s3 == set(s2, idAtNewPos, currentSong)
                           IN  Res(setSlugID(s3, currentSong.Slug, idAtNewPos),
                                   OK, 0)

moveWithoutBoundCheck(st, id, idAtNewPos, currentPosition, newPosition) ==
    IF idAtNewPos = id THEN Res(st, OK, 0)
    ELSE LET r == FindByID(st, id)
         IN  IF r.err # OK THEN Res(r.st, r.err, 0)
             ELSE LET reverse == currentPosition < newPosition
                      snap == st.songs
                      K == DOMAIN snap
                      pos == SeekPos(K, idAtNewPos, reverse)
                      s1 == seekID(r.st, idAtNewPos)
                  IN  IF pos = NoPos THEN Res(s1, Panic, 0)
                      ELSE LET s2 == shiftLoop(TrackRead(s1, SongKey(pos)), snap,
                                         NextPos(K, pos, reverse), snap[pos],
                                         id, reverse)
                               currentSong == [r.val EXCEPT !.ID = idAtNewPos]
                               s3 == set(s2, idAtNewPos, currentSong)
                           IN  Res(setSlugID(s3, currentSong.Slug, idAtNewPos),
                                   OK, 0)

MoveNoNegativeCheck(st, id, newPosition) ==
    LET d == distanceFromHeadByID(st, id)
        currentPosition == d.val
    IN  IF d.err # OK THEN Res(d.st, d.err, 0)
        ELSE IF currentPosition = newPosition THEN Res(d.st, OK, 0)
        ELSE LET a == idRelativeToHead(d.st, newPosition)
             IN  IF a.err # OK THEN Res(a.st, a.err, 0)
                 ELSE moveWithoutBoundCheck(a.st, id, a.val, currentPosition,
                                            newPosition)

Move(st, id, newPosition) ==
    LET d == distanceFromHeadByID(st, id)
        currentPosition == d.val
    IN  IF d.err # OK THEN Res(d.st, d.err, 0)
        ELSE IF currentPosition = newPosition THEN Res(d.st, OK, 0)
        ELSE IF currentPosition < 0 THEN Res(d.st, ErrSongDequeued, 0)
        ELSE IF newPosition < 0 THEN Res(d.st, ErrMoveOutOfBounds, 0)
        ELSE LET a == idRelativeToHead(d.st, newPosition)
             IN  IF a.err # OK THEN Res(a.st, a.err, 0)
                 ELSE moveWithoutBoundCheck(a.st, id, a.val, currentPosition,
                                            newPosition)

\* ----------------------------------------------------------------- state
VARIABLES
    db,      \* committed store: songs by slot id, head pointer, slug index
    seq,     \* next id of the id sequence (outside any transaction)
    tx,      \* per handle: status, transaction state, keys made stale
    last,    \* the last call made: handle, operation, arguments, result
    begun,   \* transactions begun (counted in concurrent use only)
    lease,   \* the sequence value kept in the store: end of the leased block
    marker,  \* the version marker kept in the store
    handle,  \* "open" while a Queue returned by OpenQueue has not been closed
    wire,    \* a record on its way through the binary encoding
    loop,    \* the playback loop: where it stands, its context, its song
    cmd,     \* the command handler at work: where it stands, command, user
    userCounts,  \* the handler's count of songs per user
    old      \* the in-memory predecessor queue with its slug generator

\* the state of the program around the queue and of its predecessor
appVars == <<loop, cmd, userCounts, old>>

vars == <<db, seq, tx, last, begun, lease, marker, handle, wire, appVars>>

\* no playback loop, no command handler, no predecessor queue
NoLoop == [pc |-> "none"]
NoCmd == [pc |-> "none"]
NoCounts == <<>>
NoOld == [phase |-> "none"]

NoApp ==
    /\ loop = NoLoop
    /\ cmd = NoCmd
    /\ userCounts = NoCounts
    /\ old = NoOld

\* no record is being encoded
NoWire == [phase |-> "none"]

\* the store holds no version marker
NoMarker == -1

\* version markers a store can be found with: none, the running version,
\* the one of another version of the program
Markers == {NoMarker, version, version + 1}

\* badger Sequence.updateLease: the sequence continues at the value kept in
\* the store and a block of Bandwidth ids is leased
updateLeaseFromZero(stored) == [next |-> 0, leased |-> Bandwidth]

updateLease(stored) == [next |-> stored, leased |-> stored + Bandwidth]

\* badger Sequence.Next: leases a new block when the block is used up
SequenceNext(next, leased) ==
    LET s == IF next >= leased THEN updateLease(leased)
             ELSE [next |-> next, leased |-> leased]
    IN  [val |-> s.next, next |-> s.next + 1, leased |-> s.leased]

\* checkVersion: the marker read, or the running version written when the
\* store has none
checkVersionOverwrite(m) == [marker |-> version, v |-> version]

checkVersion(m) ==
    IF m = NoMarker THEN [marker |-> version, v |-> version]
    ELSE [marker |-> m, v |-> m]

EmptySt == [songs |-> <<>>, head |-> headNilID, slugs |-> <<>>,
            reads |-> {}, writes |-> {}]

\* a handle without a transaction.  dirty: keys written by transactions
\* committed since BeginTxn; deq, enq: slot ids this transaction dequeued
\* and <<id, word>> it enqueued; peerDeq, peerEnq: the same of transactions
\* that committed while this one was open; calls: queue calls made
IdleTx == [status |-> "idle", st |-> EmptySt, dirty |-> {}, deq |-> {},
           enq |-> {}, peerDeq |-> {}, peerEnq |-> {}, calls |-> 0]

Call(x, op, id, pos, from, err, song) ==
    [tx |-> x, op |-> op, id |-> id, pos |-> pos, from |-> from, err |-> err,
     song |-> song, slug |-> <<>>, offset |-> -1, limit |-> -1, stopAt |-> -1,
     list |-> <<>>, n |-> -1, flag |-> FALSE]

Init ==
    /\ db = [songs |-> <<>>, head |-> headNilID, slugs |-> <<>>]
    /\ seq = 0
    /\ tx = [x \in Txs |-> IdleTx]
    /\ last = Call(SerialTx, "OpenQueue", -1, -1, -1, OK, ZeroSong)
    /\ begun = 0
    /\ lease = Bandwidth
    /\ marker = version
    /\ handle = "open"
    /\ wire = NoWire
    /\ NoApp

IsOpen(x) == tx[x].status = "open"

\* the handle can make one more queue call in its transaction
CanCall(x) == IsOpen(x) /\ tx[x].calls < MaxTxOps

\* Queue.BeginTxn(true): a read-write transaction on the current snapshot
BeginTxn(x) ==
    /\ handle = "open"
    /\ tx[x].status = "idle"
    /\ tx' = [tx EXCEPT ![x] = [IdleTx EXCEPT !.status = "open",
                 !.st = [songs |-> db.songs, head |-> db.head,
                         slugs |-> db.slugs, reads |-> {}, writes |-> {}]]]
    /\ last' = Call(x, "BeginTxn", -1, -1, -1, OK, ZeroSong)
    /\ UNCHANGED <<db, seq, lease>>

TxEnqueue(x, slugCandidate, song) ==
    /\ CanCall(x)
    /\ LET n == SequenceNext(seq, lease)
           r == Enqueue(tx[x].st, n.val, slugCandidate, song)
       IN  /\ tx' = [tx EXCEPT ![x].calls = @ + 1, ![x].st = r.st,
                        ![x].enq = IF r.err = OK
                                   THEN @ \cup {<<n.val, slugCandidate>>}
                                   ELSE @]
           /\ last' = Call(x, "Enqueue", n.val, -1, -1, r.err, ZeroSong)
           /\ seq' = n.next
           /\ lease' = n.leased
    /\ UNCHANGED db

TxDequeue(x) ==
    /\ CanCall(x)
    /\ LET r == Dequeue(tx[x].st)
       IN  /\ tx' = [tx EXCEPT ![x].calls = @ + 1, ![x].st = r.st,
                        ![x].deq = IF r.err = OK THEN @ \cup {r.val.ID} ELSE @]
           /\ last' = Call(x, "Dequeue", -1, -1, -1, r.err, r.val)
    /\ UNCHANGED <<db, seq, lease>>

TxRemove(x, id) ==
    /\ CanCall(x)
    /\ LET r == Remove(tx[x].st, id)
       IN  /\ tx' = [tx EXCEPT ![x].calls = @ + 1, ![x].st = r.st]
           /\ last' = Call(x, "Remove", id, -1, -1, r.err, ZeroSong)
    /\ UNCHANGED <<db, seq, lease>>

TxUpdate(x, id, song) ==
    /\ CanCall(x)
    /\ LET r == Update(tx[x].st, id, song)
       IN  /\ tx' = [tx EXCEPT ![x].calls = @ + 1, ![x].st = r.st]
           /\ last' = Call(x, "Update", id, -1, -1, r.err,
                           [ZeroSong EXCEPT !.Payload = song])
    /\ UNCHANGED <<db, seq, lease>>

\* last.from is the position the song had when Move was called (-1: none)
TxMove(x, id, newPosition) ==
    /\ CanCall(x)
    /\ LET r == Move(tx[x].st, id, newPosition)
           d == distanceFromHeadByID(tx[x].st, id)
       IN  /\ tx' = [tx EXCEPT ![x].calls = @ + 1, ![x].st = r.st]
           /\ last' = Call(x, "Move", id, newPosition,
                           IF d.err = OK THEN d.val ELSE -1, r.err, ZeroSong)
    /\ UNCHANGED <<db, seq, lease>>

\* the committed store after the writes of st are applied
Applied(st) ==
    LET songIds == {i \in DOMAIN db.songs \cup DOMAIN st.songs :
                      IF SongKey(i) \in st.writes THEN i \in DOMAIN st.songs
                      ELSE i \in DOMAIN db.songs}
        slugKeys == {k \in DOMAIN db.slugs \cup DOMAIN st.slugs :
                      IF SlugKey(k) \in st.writes THEN k \in DOMAIN st.slugs
                      ELSE k \in DOMAIN db.slugs}
    IN  [songs |-> [i \in songIds |-> IF SongKey(i) \in st.writes
                                      THEN st.songs[i] ELSE db.songs[i]],
         head |-> IF HeadKey \in st.writes THEN st.head ELSE db.head,
         slugs |-> [k \in slugKeys |-> IF SlugKey(k) \in st.writes
                                       THEN st.slugs[k] ELSE db.slugs[k]]]

HasConflictNever(t) == FALSE

\* the store rejects a transaction at commit when a key it read was written
\* by a transaction committed since its BeginTxn
HasConflict(t) == t.st.reads \cap t.dirty # {}

\* QueueTx.Commit: nothing to do without writes; rejected on a conflict;
\* else the writes are applied and every open transaction sees them as stale
Commit(x) ==
    /\ IsOpen(x)
    /\ LET t == tx[x]
       IN  IF t.st.writes = {}
           THEN /\ tx' = [tx EXCEPT ![x] = IdleTx]
                /\ last' = Call(x, "Commit", -1, -1, -1, OK, ZeroSong)
                /\ UNCHANGED db
           ELSE IF HasConflict(t)
           THEN /\ tx' = [tx EXCEPT ![x] = IdleTx]
                /\ last' = Call(x, "Commit", -1, -1, -1, ErrConflict, ZeroSong)
                /\ UNCHANGED db
           ELSE /\ db' = Applied(t.st)
                /\ tx' = [y \in Txs |->
                            IF y = x THEN IdleTx
                            ELSE IF tx[y].status = "open"
                            THEN [tx[y] EXCEPT !.dirty = @ \cup t.st.writes,
                                               !.peerDeq = @ \cup t.deq,
                                               !.peerEnq = @ \cup t.enq]
                            ELSE tx[y]]
                /\ last' = Call(x, "Commit", -1, -1, -1, OK, ZeroSong)
    /\ UNCHANGED <<seq, lease>>

\* Discard that writes the transaction's changes to the store
DiscardApplies(x) ==
    /\ IsOpen(x)
    /\ db' = Applied(tx[x].st)
    /\ tx' = [tx EXCEPT ![x] = IdleTx]
    /\ last' = Call(x, "Discard", -1, -1, -1, OK, ZeroSong)
    /\ UNCHANGED <<seq, lease>>

\* QueueTx.Discard: all writes of the transaction are abandoned
Discard(x) ==
    /\ IsOpen(x)
    /\ tx' = [tx EXCEPT ![x] = IdleTx]
    /\ last' = Call(x, "Discard", -1, -1, -1, OK, ZeroSong)
    /\ UNCHANGED <<db, seq, lease>>

\* slugs asked for when words are drawn and cap slot ids are handed out
SlugsTo(words, cap) ==
    words \cup {w \o <<Dash>> \o Itoa(n) : w \in words, n \in 1 .. (cap - 1)}

TxPeek(x) ==
    /\ CanCall(x)
    /\ LET r == Peek(tx[x].st)
       IN  /\ tx' = [tx EXCEPT ![x].calls = @ + 1, ![x].st = r.st]
           /\ last' = Call(x, "Peek", -1, -1, -1, r.err, r.val)
    /\ UNCHANGED <<db, seq, lease>>

TxFindByID(x, id) ==
    /\ CanCall(x)
    /\ LET r == FindByID(tx[x].st, id)
       IN  /\ tx' = [tx EXCEPT ![x].calls = @ + 1, ![x].st = r.st]
           /\ last' = Call(x, "FindByID", id, -1, -1, r.err, r.val)
    /\ UNCHANGED <<db, seq, lease>>

TxFindBySlug(x, slug) ==
    /\ CanCall(x)
    /\ LET r == FindBySlug(tx[x].st, slug)
       IN  /\ tx' = [tx EXCEPT ![x].calls = @ + 1, ![x].st = r.st]
           /\ last' = [Call(x, "FindBySlug", -1, -1, -1, r.err, r.val)
                          EXCEPT !.slug = slug]
    /\ UNCHANGED <<db, seq, lease>>

TxLastDequeued(x) ==
    /\ CanCall(x)
    /\ LET r == LastDequeued(tx[x].st)
       IN  /\ tx' = [tx EXCEPT ![x].calls = @ + 1, ![x].st = r.st]
           /\ last' = Call(x, "LastDequeued", -1, -1, -1, r.err, r.val)
    /\ UNCHANGED <<db, seq, lease>>

\* the queries a handle can make on its open transaction
TxQuery(x, words, cap) ==
    \/ TxPeek(x)
    \/ \E i \in IdsTo(cap) : TxFindByID(x, i)
    \/ \E s \in SlugsTo(words, cap) : TxFindBySlug(x, s)
    \/ TxLastDequeued(x)

TxList(x, offset, limit) ==
    /\ CanCall(x)
    /\ LET r == List(tx[x].st, offset, limit)
       IN  /\ tx' = [tx EXCEPT ![x].calls = @ + 1, ![x].st = r.st]
           /\ last' = [Call(x, "List", -1, -1, -1, r.err, ZeroSong)
                          EXCEPT !.offset = offset, !.limit = limit,
                                 !.list = r.val]
    /\ UNCHANGED <<db, seq, lease>>

TxCount(x) ==
    /\ CanCall(x)
    /\ LET r == Count(tx[x].st)
       IN  /\ tx' = [tx EXCEPT ![x].calls = @ + 1, ![x].st = r.st]
           /\ last' = [Call(x, "Count", -1, -1, -1, r.err, ZeroSong)
                          EXCEPT !.n = r.val]
    /\ UNCHANGED <<db, seq, lease>>

TxEmpty(x) ==
    /\ CanCall(x)
    /\ LET r == Empty(tx[x].st)
       IN  /\ tx' = [tx EXCEPT ![x].calls = @ + 1, ![x].st = r.st]
           /\ last' = [Call(x, "Empty", -1, -1, -1, r.err, ZeroSong)
                          EXCEPT !.flag = r.val]
    /\ UNCHANGED <<db, seq, lease>>

\* IterateFromHead with a callback that returns false on its stopAt-th call
\* (never when stopAt is 0); the songs it was called on are kept in list
TxIterateFromHead(x, stopAt) ==
    /\ CanCall(x)
    /\ LET r == IterateFromHead(tx[x].st, stopAt)
       IN  /\ tx' = [tx EXCEPT ![x].calls = @ + 1, ![x].st = r.st]
           /\ last' = [Call(x, "IterateFromHead", -1, -1, -1, r.err, ZeroSong)
                          EXCEPT !.stopAt = stopAt, !.list = r.val]
    /\ UNCHANGED <<db, seq, lease>>

\* the listing calls a handle can make on its open transaction, with
\* offsets, limits and stopping points up to cap
TxListing(x, cap) ==
    \/ \E offset \in 0 .. cap, limit \in 0 .. cap : TxList(x, offset, limit)
    \/ TxCount(x)
    \/ TxEmpty(x)
    \/ \E stopAt \in 0 .. cap : TxIterateFromHead(x, stopAt)

\* the calls a handle can make on its open transaction, with slug words
\* drawn from words and cap slot ids to hand out
TxStep(x, words, cap) ==
    \/ \E w \in words, p \in Payloads : seq < cap /\ TxEnqueue(x, w, p)
    \/ TxDequeue(x)
    \/ \E i \in IdsTo(cap) : TxRemove(x, i)
    \/ \E i \in IdsTo(cap), p \in Payloads : TxUpdate(x, i, p)
    \/ \E i \in IdsTo(cap), n \in PositionsTo(cap) : TxMove(x, i, n)
    \/ Commit(x)
    \/ Discard(x)

\* concurrent use: every handle may have a transaction open
Next ==
    /\ \E x \in Txs :
          \/ BeginTxn(x) /\ begun < MaxConcTx /\ begun' = begun + 1
          \/ TxStep(x, Words, MaxConcId) /\ UNCHANGED begun
    /\ UNCHANGED <<marker, handle, wire, appVars>>

Spec == Init /\ [][Next]_vars

\* serial use: one handle, one transaction after the other
NextSerial ==
    /\ BeginTxn(SerialTx) \/ TxStep(SerialTx, Words, MaxId)
    /\ UNCHANGED <<begun, marker, handle, wire, appVars>>

SpecSerial == Init /\ [][NextSerial]_vars

\* serial use with more slot ids and a one-word word list
NextLong ==
    /\ BeginTxn(SerialTx) \/ TxStep(SerialTx, OneWord, MaxLongId)
    /\ UNCHANGED <<begun, marker, handle, wire, appVars>>

SpecLong == Init /\ [][NextLong]_vars

\* serial use with the queries
NextQuery ==
    /\ \/ BeginTxn(SerialTx)
       \/ TxStep(SerialTx, Words, MaxId)
       \/ TxQuery(SerialTx, Words, MaxId)
    /\ UNCHANGED <<begun, marker, handle, wire, appVars>>

SpecQuery == Init /\ [][NextQuery]_vars

\* serial use with the listing calls
NextList ==
    /\ \/ BeginTxn(SerialTx)
       \/ TxStep(SerialTx, Words, MaxId)
       \/ TxListing(SerialTx, MaxId)
    /\ UNCHANGED <<begun, marker, handle, wire, appVars>>

SpecList == Init /\ [][NextList]_vars

\* a store directory as OpenQueue can find it: without records, with no
\* version marker, the running one or another one
InitLife ==
    /\ db = [songs |-> <<>>, head |-> headNilID, slugs |-> <<>>]
    /\ seq = 0
    /\ tx = [x \in Txs |-> IdleTx]
    /\ last = Call(SerialTx, "None", -1, -1, -1, OK, ZeroSong)
    /\ begun = 0
    /\ lease = 0
    /\ marker \in Markers
    /\ handle = "closed"
    /\ wire = NoWire
    /\ NoApp

\* OpenQueue: a block of ids is leased, then the version is checked.  While
\* no Queue is open seq keeps the first id not handed out so far.
OpenQueue ==
    /\ handle = "closed"
    /\ lease < MaxLifeId
    /\ LET s == updateLease(lease)
           c == checkVersion(marker)
       IN  /\ lease' = s.leased
           /\ marker' = c.marker
           /\ IF c.v # version
              THEN /\ last' = Call(SerialTx, "OpenQueue", -1, -1, -1,
                                   ErrVersionMismatch, ZeroSong)
                   /\ UNCHANGED <<seq, handle>>
              ELSE /\ last' = Call(SerialTx, "OpenQueue", -1, -1, -1, OK,
                                   ZeroSong)
                   /\ seq' = s.next
                   /\ handle' = "open"
    /\ UNCHANGED <<db, tx, begun, wire, appVars>>

\* Queue.Close: Sequence.Release gives the unused ids of the block back
Close ==
    /\ handle = "open"
    /\ \A x \in Txs : tx[x].status = "idle"
    /\ lease' = seq
    /\ handle' = "closed"
    /\ last' = Call(SerialTx, "Close", -1, -1, -1, OK, ZeroSong)
    /\ UNCHANGED <<db, seq, tx, begun, marker, wire, appVars>>

\* the process ends without Close: open transactions and the unreleased
\* ids of the block are lost
Crash ==
    /\ handle = "open"
    /\ handle' = "closed"
    /\ tx' = [x \in Txs |-> IdleTx]
    /\ last' = Call(SerialTx, "Crash", -1, -1, -1, OK, ZeroSong)
    /\ UNCHANGED <<db, seq, begun, lease, marker, wire, appVars>>

\* the calls made on a transaction over the life of a store
TxLifeStep(x) ==
    \/ \E w \in OneWord, p \in Payloads : seq < MaxLifeId /\ TxEnqueue(x, w, p)
    \/ TxDequeue(x)
    \/ Commit(x)
    \/ Discard(x)

\* a store over openings, closes and crashes, used by one handle
NextLife ==
    \/ /\ BeginTxn(SerialTx) \/ TxLifeStep(SerialTx)
       /\ UNCHANGED <<begun, marker, handle, wire, appVars>>
    \/ OpenQueue
    \/ Close
    \/ Crash

SpecLife == InitLife /\ [][NextLife]_vars

\* ------------------------------------------------------- binary encoding
\* Go integer division and remainder (truncated toward zero)
GoQuo(a, b) == IF a >= 0 THEN a \div b ELSE -((-a) \div b)
GoRem(a, b) == a - b * GoQuo(a, b)

RECURSIVE PutUint(_, _)
\* binary.BigEndian.PutUint16/32/64 of the two's complement of v: n bytes
PutUint(v, n) ==
    IF n = 0 THEN <<>> ELSE Append(PutUint(v \div 256, n - 1), v % 256)

RECURSIVE UintAcc(_, _)
UintAcc(bs, acc) ==
    IF bs = <<>> THEN acc ELSE UintAcc(Tail(bs), acc * 256 + Head(bs))

\* binary.BigEndian.Uint32 of the bytes
Uint(bs) == UintAcc(bs, 0)

\* the bytes read as a signed integer: int(Uint64(..)), int16(..)
SignedInt(bs) ==
    UintAcc(Tail(bs), IF Head(bs) >= 128 THEN Head(bs) - 256 ELSE Head(bs))

timeBinaryVersionV1 == 1
timeBinaryVersionV2 == 2

\* a time.Time: seconds and nanoseconds of the instant, and the zone as UTC
\* or as an offset in seconds
ZeroTime == [sec |-> 0, nsec |-> 0, utc |-> TRUE, offset |-> 0]

IsZero(t) == t.sec = 0 /\ t.nsec = 0

\* Time.Equal: the same instant
TimeEqual(t, u) == t.sec = u.sec /\ t.nsec = u.nsec

\* time.Time.MarshalBinary: version, 8 bytes of seconds, 4 of nanoseconds,
\* 2 of zone offset minutes (-1 for UTC) and, in version 2, the offset's
\* seconds
MarshalTime(t) ==
    LET v2 == ~t.utc /\ GoRem(t.offset, 60) # 0
        offsetMin == IF t.utc THEN -1 ELSE GoQuo(t.offset, 60)
        enc == <<IF v2 THEN timeBinaryVersionV2 ELSE timeBinaryVersionV1>>
                   \o PutUint(t.sec, 8) \o PutUint(t.nsec, 4)
                   \o PutUint(offsetMin, 2)
    IN  IF ~t.utc /\ (offsetMin < -32768 \/ offsetMin = -1 \/ offsetMin > 32767)
        THEN [err |-> "unexpected zone offset", val |-> <<>>]
        ELSE [err |-> OK,
              val |-> IF v2 THEN Append(enc, PutUint(GoRem(t.offset, 60), 1)[1])
                      ELSE enc]

\* time.Time.UnmarshalBinary
UnmarshalTime(buf) ==
    IF buf = <<>> THEN [err |-> "no data", val |-> ZeroTime]
    ELSE IF buf[1] \notin {timeBinaryVersionV1, timeBinaryVersionV2}
    THEN [err |-> "unsupported version", val |-> ZeroTime]
    ELSE IF Len(buf) # (IF buf[1] = timeBinaryVersionV2 THEN 16 ELSE 15)
    THEN [err |-> "invalid length", val |-> ZeroTime]
    ELSE LET offset == SignedInt(SubSeq(buf, 14, 15)) * 60
                          + (IF buf[1] = timeBinaryVersionV2 THEN buf[16] ELSE 0)
         IN  [err |-> OK,
              val |-> [sec |-> SignedInt(SubSeq(buf, 2, 9)),
                       nsec |-> SignedInt(SubSeq(buf, 10, 13)),
                       utc |-> offset = -60,
                       offset |-> IF offset = -60 THEN 0 ELSE offset]]

\* timeUnmarshalSlice that always takes the 15 bytes of version 1
timeUnmarshalSliceV1(data) == [err |-> OK, val |-> SubSeq(data, 1, 15)]

\* timeUnmarshalSlice: the bytes of one encoded time at the start of data
timeUnmarshalSlice(data) ==
    IF data[1] = timeBinaryVersionV1 THEN [err |-> OK, val |-> SubSeq(data, 1, 15)]
    ELSE IF data[1] = timeBinaryVersionV2
    THEN [err |-> OK, val |-> SubSeq(data, 1, 16)]
    ELSE [err |-> Panic, val |-> <<>>]

\* writeTime into a slot of 16 bytes of the zeroed buffer
writeTime(t) ==
    LET tb == MarshalTime(t)
    IN  [err |-> tb.err,
         val |-> tb.val \o [i \in 1 .. 16 - Len(tb.val) |-> 0]]

RECURSIVE writeStrings(_)
\* writeStrings: every string behind its length in 4 bytes
writeStrings(strings) ==
    IF strings = <<>> THEN <<>>
    ELSE PutUint(Len(Head(strings)), 4) \o Head(strings)
             \o writeStrings(Tail(strings))

RECURSIVE readStrings(_, _)
\* readStrings: n strings read one behind the other
readStrings(buf, n) ==
    IF n = 0 THEN <<>>
    ELSE LET l == Uint(SubSeq(buf, 1, 4))
         IN  <<SubSeq(buf, 5, 4 + l)>>
                 \o readStrings(SubSeq(buf, 5 + l, Len(buf)), n - 1)

\* the QueuedSong of the binary encoding, with all its fields
ZeroQueuedSong ==
    [ID |-> 0, QueuedAt |-> ZeroTime, DequeuedAt |-> ZeroTime, Duration |-> 0,
     UserID |-> <<>>, Title |-> <<>>, SongURL |-> <<>>, ThumbnailURL |-> <<>>,
     Slug |-> <<>>]

\* QueuedSong.MarshalBinary
MarshalBinary(qs) ==
    LET q == writeTime(qs.QueuedAt)
        d == writeTime(qs.DequeuedAt)
    IN  IF q.err # OK THEN [err |-> q.err, val |-> <<>>]
        ELSE IF d.err # OK THEN [err |-> d.err, val |-> <<>>]
        ELSE [err |-> OK,
              val |-> PutUint(qs.ID, 8) \o q.val \o d.val
                          \o PutUint(qs.Duration, 8)
                          \o writeStrings(<<qs.UserID, qs.Title, qs.SongURL,
                                            qs.ThumbnailURL, qs.Slug>>)]

\* QueuedSong.UnmarshalBinary
UnmarshalBinary(data) ==
    LET qb == timeUnmarshalSlice(SubSeq(data, 9, Len(data)))
        db2 == timeUnmarshalSlice(SubSeq(data, 25, Len(data)))
        q == UnmarshalTime(qb.val)
        d == UnmarshalTime(db2.val)
        strs == readStrings(SubSeq(data, 49, Len(data)), 5)
    IN  IF qb.err # OK THEN [err |-> qb.err, val |-> ZeroQueuedSong]
        ELSE IF q.err # OK THEN [err |-> q.err, val |-> ZeroQueuedSong]
        ELSE IF db2.err # OK THEN [err |-> db2.err, val |-> ZeroQueuedSong]
        ELSE IF d.err # OK THEN [err |-> d.err, val |-> ZeroQueuedSong]
        ELSE [err |-> OK,
              val |-> [ID |-> SignedInt(SubSeq(data, 1, 8)),
                       QueuedAt |-> q.val, DequeuedAt |-> d.val,
                       Duration |-> SignedInt(SubSeq(data, 41, 48)),
                       UserID |-> strs[1], Title |-> strs[2],
                       SongURL |-> strs[3], ThumbnailURL |-> strs[4],
                       Slug |-> strs[5]]]

\* the values the encoding is tried on: ids and durations of one and more
\* bytes and negative, times unset, in UTC, in a whole-minute zone and in a
\* zone off the minute, strings empty and not
WireInts == {0, 1, 70000, -2}
WireTimes ==
    {ZeroTime,
     [sec |-> 70000, nsec |-> 999999999, utc |-> TRUE, offset |-> 0],
     [sec |-> 1, nsec |-> 0, utc |-> FALSE, offset |-> -21600],
     [sec |-> 258, nsec |-> 1, utc |-> FALSE, offset |-> 1172]}
WireStrings ==
    {<<<<>>, <<>>, <<>>, <<>>, <<>>>>,
     <<<<117>>, <<116, 105>>, <<115>>, <<116, 104>>, <<97, 45, 49>>>>,
     <<<<117>>, <<>>, <<0, 0, 0, 1>>, <<>>, <<97>>>>}

WireSongs ==
    {[ID |-> i, QueuedAt |-> q, DequeuedAt |-> d, Duration |-> n,
      UserID |-> s[1], Title |-> s[2], SongURL |-> s[3],
      ThumbnailURL |-> s[4], Slug |-> s[5]] :
        i \in WireInts, q \in WireTimes, d \in WireTimes,
        n \in {0, 70000}, s \in WireStrings}

InitCodec ==
    /\ db = [songs |-> <<>>, head |-> headNilID, slugs |-> <<>>]
    /\ seq = 0
    /\ tx = [x \in Txs |-> IdleTx]
    /\ last = Call(SerialTx, "None", -1, -1, -1, OK, ZeroSong)
    /\ begun = 0
    /\ lease = 0
    /\ marker = NoMarker
    /\ handle = "closed"
    /\ \E qs \in WireSongs : wire = [phase |-> "song", song |-> qs]
    /\ NoApp

\* set: the record is encoded for the store
WireMarshal ==
    /\ wire.phase = "song"
    /\ LET r == MarshalBinary(wire.song)
       IN  wire' = [phase |-> "data", song |-> wire.song, err |-> r.err,
                    data |-> r.val]

\* songIterator.song: the value read from the store is decoded
WireUnmarshal ==
    /\ wire.phase = "data" /\ wire.err = OK
    /\ LET r == UnmarshalBinary(wire.data)
       IN  wire' = [phase |-> "decoded", song |-> wire.song, err |-> r.err,
                    data |-> wire.data, out |-> r.val]

NextCodec ==
    /\ WireMarshal \/ WireUnmarshal
    /\ UNCHANGED <<db, seq, tx, last, begun, lease, marker, handle, appVars>>

SpecCodec == InitCodec /\ [][NextCodec]_vars

\* ------------------------------------------- playback loop and commands
\* the users who send commands (none of them an admin)
Users == {"u", "v"}

\* the transactions of the playback loop and of the command handler
ConsumerTx == "t1"
HandlerTx == "t2"

ErrUserLimit == "You have reached the limit of songs you can enqueue."
ErrNotAllowed == "You are not allowed to remove this song."

\* a transaction as BeginTxn opens it
Snapshot ==
    [songs |-> db.songs, head |-> db.head, slugs |-> db.slugs,
     reads |-> {}, writes |-> {}]

\* a queue starts empty; main starts the handler, which counts the queue's
\* songs per user, and the playback loop with playback enabled
InitApp ==
    /\ db = [songs |-> <<>>, head |-> headNilID, slugs |-> <<>>]
    /\ seq = 0
    /\ tx = [x \in Txs |-> IdleTx]
    /\ last = Call(SerialTx, "OpenQueue", -1, -1, -1, OK, ZeroSong)
    /\ begun = 0
    /\ lease = Bandwidth
    /\ marker = version
    /\ handle = "open"
    /\ wire = NoWire
    /\ loop = [pc |-> "top", cancelled |-> FALSE, song |-> ZeroSong]
    /\ cmd = [pc |-> "idle", op |-> "", user |-> ""]
    /\ userCounts = [u \in Users |-> 0]
    /\ old = NoOld

\* the parts of the state the loop and the commands leave alone
AppFrame == UNCHANGED <<begun, marker, handle, wire, old>>

\* the context of the playback loop is cancelled
CancelContext ==
    /\ loop.pc # "none" /\ ~loop.cancelled
    /\ loop' = [loop EXCEPT !.cancelled = TRUE]
    /\ last' = Call(ConsumerTx, "Cancel", -1, -1, -1, OK, ZeroSong)
    /\ UNCHANGED <<db, seq, lease, tx, cmd, userCounts>>
    /\ AppFrame

\* loopPlayMPV from the top of the loop to its Commit: the context is
\* looked at, then BeginTxn, Dequeue and List(0, 10) work on one snapshot
LoopBegin ==
    /\ loop.pc = "top"
    /\ IF loop.cancelled
       THEN /\ loop' = [loop EXCEPT !.pc = "returned"]
            /\ last' = Call(ConsumerTx, "Return", -1, -1, -1, OK, ZeroSong)
            /\ UNCHANGED tx
       ELSE LET d == Dequeue(Snapshot)
                l == List(d.st, 0, 10)
            IN  IF d.err = ErrQueueEmpty
                THEN /\ loop' = [loop EXCEPT !.pc = "sleep"]
                     /\ last' = Call(ConsumerTx, "Dequeue", -1, -1, -1, d.err,
                                     ZeroSong)
                     /\ UNCHANGED tx
                ELSE IF d.err # OK \/ l.err # OK
                THEN /\ loop' = [loop EXCEPT !.pc = "returned"]
                     /\ last' = Call(ConsumerTx, "Dequeue", -1, -1, -1,
                                     IF d.err # OK THEN d.err ELSE l.err,
                                     ZeroSong)
                     /\ UNCHANGED tx
                ELSE /\ loop' = [loop EXCEPT !.pc = "commit", !.song = d.val]
                     /\ tx' = [tx EXCEPT ![ConsumerTx] =
                                 [IdleTx EXCEPT !.status = "open", !.st = l.st,
                                                !.deq = {d.val.ID},
                                                !.calls = 2]]
                     /\ last' = [Call(ConsumerTx, "Dequeue", -1, -1, -1, OK,
                                      d.val) EXCEPT !.list = l.val]
    /\ UNCHANGED <<db, seq, lease, cmd, userCounts>>
    /\ AppFrame

\* the wait of one second on an empty queue: the loop returns when the
\* context is done, and goes on when the timer fires
LoopSleep ==
    /\ loop.pc = "sleep"
    /\ \E pc \in IF loop.cancelled THEN {"returned", "top"} ELSE {"top"} :
          loop' = [loop EXCEPT !.pc = pc]
    /\ last' = Call(ConsumerTx, "Sleep", -1, -1, -1, OK, ZeroSong)
    /\ UNCHANGED <<db, seq, lease, tx, cmd, userCounts>>
    /\ AppFrame

\* the Commit of the loop: on an error the loop is left by break
LoopCommit ==
    /\ loop.pc = "commit"
    /\ Commit(ConsumerTx)
    /\ loop' = [loop EXCEPT !.pc = IF last'.err = OK THEN "playing"
                                   ELSE "returned"]
    /\ UNCHANGED <<cmd, userCounts>>
    /\ AppFrame

\* the song is played to its end and the loop starts over
LoopPlay ==
    /\ loop.pc = "playing"
    /\ loop' = [loop EXCEPT !.pc = "top"]
    /\ last' = Call(ConsumerTx, "Play", -1, -1, -1, OK, loop.song)
    /\ UNCHANGED <<db, seq, lease, tx, cmd, userCounts>>
    /\ AppFrame

\* decrementUserCount
decrementUserCount(counts, userID) ==
    IF counts[userID] > 0 THEN [counts EXCEPT ![userID] = @ - 1] ELSE counts

\* cmdEnqueue of user u up to its Commit: the limit is checked on
\* userCounts, and the count goes up right after Enqueue
cmdEnqueueBody(u, slugCandidate) ==
    /\ cmd.pc = "idle"
    /\ seq < MaxAppId
    /\ IF userCounts[u] >= userLimit
       THEN /\ last' = Call(HandlerTx, "cmdEnqueue", -1, -1, -1, ErrUserLimit,
                            [ZeroSong EXCEPT !.Payload = u])
            /\ UNCHANGED <<tx, cmd, userCounts, seq, lease>>
       ELSE LET ld == LastDequeued(Snapshot)
                it == IterateFromHead(ld.st, 0)
                n == SequenceNext(seq, lease)
                e == Enqueue(it.st, n.val, slugCandidate, u)
                g == FindByID(e.st, n.val)
                c == Count(g.st)
            IN  /\ seq' = n.next
                /\ lease' = n.leased
                /\ IF e.err # OK
                   THEN /\ last' = Call(HandlerTx, "cmdEnqueue", n.val, -1, -1,
                                        e.err, [ZeroSong EXCEPT !.Payload = u])
                        /\ UNCHANGED <<tx, cmd, userCounts>>
                   ELSE /\ userCounts' = [userCounts EXCEPT ![u] = @ + 1]
                        /\ tx' = [tx EXCEPT ![HandlerTx] =
                                    [IdleTx EXCEPT !.status = "open",
                                                   !.st = c.st,
                                                   !.enq = {<<n.val,
                                                              slugCandidate>>},
                                                   !.calls = 5]]
                        /\ cmd' = [pc |-> "commit", op |-> "cmdEnqueue",
                                   user |-> u]
                        /\ last' = Call(HandlerTx, "Enqueue", n.val, -1, -1, OK,
                                        [ZeroSong EXCEPT !.Payload = u])
    /\ UNCHANGED <<db, loop>>
    /\ AppFrame

\* the Commit of cmdEnqueue: on an error the handler returns
cmdEnqueueCommit ==
    /\ cmd.pc = "commit" /\ cmd.op = "cmdEnqueue"
    /\ Commit(HandlerTx)
    /\ cmd' = [pc |-> "idle", op |-> "", user |-> ""]
    /\ UNCHANGED <<loop, userCounts>>
    /\ AppFrame

\* cmdRemove of user u up to its Commit
cmdRemoveBody(u, slug) ==
    /\ cmd.pc = "idle"
    /\ LET f == FindBySlug(Snapshot, slug)
           r == Remove(f.st, f.val.ID)
       IN  IF f.err # OK
           THEN /\ last' = Call(HandlerTx, "cmdRemove", -1, -1, -1, f.err,
                                [ZeroSong EXCEPT !.Payload = u])
                /\ UNCHANGED <<tx, cmd>>
           ELSE IF f.val.Payload # u
           THEN /\ last' = Call(HandlerTx, "cmdRemove", f.val.ID, -1, -1,
                                ErrNotAllowed, f.val)
                /\ UNCHANGED <<tx, cmd>>
           ELSE IF r.err # OK
           THEN /\ last' = Call(HandlerTx, "cmdRemove", f.val.ID, -1, -1,
                                r.err, f.val)
                /\ UNCHANGED <<tx, cmd>>
           ELSE /\ tx' = [tx EXCEPT ![HandlerTx] =
                            [IdleTx EXCEPT !.status = "open", !.st = r.st,
                                           !.calls = 2]]
                /\ cmd' = [pc |-> "commit", op |-> "cmdRemove",
                           user |-> f.val.Payload]
                /\ last' = Call(HandlerTx, "Remove", f.val.ID, -1, -1, OK, f.val)
    /\ UNCHANGED <<db, seq, lease, loop, userCounts>>
    /\ AppFrame

\* the Commit of cmdRemove: the user's count goes down after it succeeded
cmdRemoveCommit ==
    /\ cmd.pc = "commit" /\ cmd.op = "cmdRemove"
    /\ Commit(HandlerTx)
    /\ userCounts' = IF last'.err = OK
                     THEN decrementUserCount(userCounts, cmd.user)
                     ELSE userCounts
    /\ cmd' = [pc |-> "idle", op |-> "", user |-> ""]
    /\ UNCHANGED loop
    /\ AppFrame

\* the playback loop and one command at a time, side by side
NextApp ==
    \/ CancelContext
    \/ LoopBegin
    \/ LoopSleep
    \/ LoopCommit
    \/ LoopPlay
    \/ \E u \in Users, w \in OneWord : cmdEnqueueBody(u, w)
    \/ cmdEnqueueCommit
    \/ \E u \in Users, s \in SlugsTo(OneWord, MaxAppId) : cmdRemoveBody(u, s)
    \/ cmdRemoveCommit

SpecApp == InitApp /\ [][NextApp]_vars

\* ------------------------------------------- the in-memory predecessor queue
\* the word list of slugs.json, one word a prefix of the other
slugs == << <<"a">>, <<"a", "b">> >>

ErrCanceled == "context canceled"

\* a Go map of integers: a missing key reads as zero
mapGet(m, k) == IF k \in DOMAIN m THEN m[k] ELSE 0
mapSet(m, k, v) == [x \in DOMAIN m \cup {k} |-> IF x = k THEN v ELSE m[x]]
mapDelete(m, k) == [x \in DOMAIN m \ {k} |-> m[x]]

\* strings.SplitN(s, "-", 2)
SplitN(s) ==
    IF IndexByte(s, Dash) = 0 THEN <<s>>
    ELSE <<SubSeq(s, 1, IndexByte(s, Dash) - 1),
           SubSeq(s, IndexByte(s, Dash) + 1, Len(s))>>

\* the values rand.NewZipf(r, 1.1, 36.5, uint64(len(slugs))) can produce:
\* Zipf.Uint64 returns a value in [0, imax]
zipfUint64 == 0 .. Len(slugs)

\* newSlugGenerator
newSlugGenerator == [count |-> <<>>, max |-> <<>>, panic |-> ""]

\* an increment that hands out the highest number again
incrementKeepMax(g, slug) ==
    LET c == mapGet(g.count, slug) + 1
    IN  [g |-> [g EXCEPT !.count = mapSet(g.count, slug, c)],
         sequenceID |-> mapGet(g.max, slug)]

\* slugGenerator.increment
increment(g, slug) ==
    LET c == mapGet(g.count, slug) + 1
        m == IF c > 1 THEN mapSet(g.max, slug, mapGet(g.max, slug) + 1)
             ELSE g.max
    IN  [g |-> [g EXCEPT !.count = mapSet(g.count, slug, c), !.max = m],
         sequenceID |-> mapGet(m, slug)]

\* slugGenerator.next with the index its Zipf source drew: an index past
\* the word list panics
next(g, index) ==
    IF index >= Len(slugs)
    THEN [g |-> [g EXCEPT !.panic = "index out of range"], err |-> Panic,
          val |-> <<>>]
    ELSE LET slug == slugs[index + 1]
             r == increment(g, slug)
         IN  [g |-> r.g, err |-> OK,
              val |-> IF r.sequenceID > 0
                      THEN slug \o <<Dash>> \o Itoa(r.sequenceID)
                      ELSE slug]

\* slugGenerator.decrement
decrement(g, slugWithSeq) ==
    LET end == IF IndexByte(slugWithSeq, Dash) = 0 THEN Len(slugWithSeq)
               ELSE IndexByte(slugWithSeq, Dash) - 1
        slug == SubSeq(slugWithSeq, 1, end)
        c == mapGet(g.count, slug) - 1
    IN  IF c = 0
        THEN [g EXCEPT !.max = mapDelete(g.max, slug),
                       !.count = mapDelete(g.count, slug)]
        ELSE IF c < 0
        THEN [g EXCEPT !.count = mapSet(g.count, slug, c),
                       !.panic = "negative count"]
        ELSE [g EXCEPT !.count = mapSet(g.count, slug, c)]

\* the loop of queue.restore over the archived songs
RECURSIVE restoreLoop(_, _, _)
restoreLoop(g, songs, i) ==
    IF i > Len(songs) \/ g.panic # "" THEN g
    ELSE LET parts == SplitN(songs[i])
             id == IF Len(parts) = 2 THEN Atoi(parts[2]) ELSE 0
             g1 == IF Len(parts) = 2 /\ id = -1
                   THEN [g EXCEPT !.panic = "strconv.Atoi"]
                   ELSE IF Len(parts) = 2 /\ id > mapGet(g.max, parts[1])
                   THEN [g EXCEPT !.max = mapSet(g.max, parts[1], id)]
                   ELSE g
             g2 == IF g1.panic # "" THEN g1
                   ELSE [g1 EXCEPT !.count = mapSet(g1.count, parts[1],
                                         mapGet(g1.count, parts[1]) + 1)]
         IN  restoreLoop(g2, songs, i + 1)

\* the queues a run can leave behind: songs with distinct slugs of the
\* generator's making
Archives ==
    {a \in UNION {[1 .. n -> SlugsTo({slugs[i] : i \in DOMAIN slugs},
                                     MaxOldSeq + 1)] : n \in 0 .. MaxOldLen} :
        \A i, j \in DOMAIN a : i # j => a[i] # a[j]}

\* newQueue, with a dequeue caller and a context that have not acted yet
newQueue ==
    [phase |-> "new", songs |-> <<>>, slugs |-> newSlugGenerator,
     archive |-> <<>>, ctx |-> "live", func |-> "none", pc |-> "idle",
     mu |-> "free", waiting |-> FALSE, notified |-> FALSE,
     ret |-> [err |-> OK, slug |-> <<>>]]

OldSong(slug) == [ZeroSong EXCEPT !.Slug = slug]

\* the parts of the state the predecessor queue leaves alone
OldFrame == UNCHANGED <<db, seq, tx, begun, lease, marker, handle, wire,
                        loop, cmd, userCounts>>

InitOld ==
    /\ db = [songs |-> <<>>, head |-> headNilID, slugs |-> <<>>]
    /\ seq = 0
    /\ tx = [x \in Txs |-> IdleTx]
    /\ last = Call(SerialTx, "newQueue", -1, -1, -1, OK, ZeroSong)
    /\ begun = 0
    /\ lease = Bandwidth
    /\ marker = version
    /\ handle = "open"
    /\ wire = NoWire
    /\ loop = NoLoop
    /\ cmd = NoCmd
    /\ userCounts = NoCounts
    /\ old = newQueue

\* the program has not crashed on a panic
OldRuns == old.phase = "run" /\ old.slugs.panic = ""

\* queue.restore
restore(songs) ==
    /\ old.phase = "new"
    /\ old' = [old EXCEPT !.phase = "run", !.songs = songs,
                          !.archive = songs,
                          !.slugs = restoreLoop(old.slugs, songs, 1)]
    /\ last' = Call(SerialTx, "restore", -1, -1, -1,
                    IF old'.slugs.panic = "" THEN OK ELSE Panic, ZeroSong)
    /\ OldFrame

\* sync.Cond.Signal and Broadcast with one goroutine that may wait
Wake(q) == IF q.waiting THEN [q EXCEPT !.notified = TRUE] ELSE q

\* queue.enqueue, called by a command handler under the write lock
enqueue(index) ==
    /\ OldRuns /\ old.mu = "free"
    /\ Len(old.songs) < MaxOldLen
    /\ LET r == next(old.slugs, index)
       IN  /\ r.err = OK => mapGet(r.g.max, slugs[index + 1]) <= MaxOldSeq
           /\ old' = IF r.err # OK THEN [old EXCEPT !.slugs = r.g]
                     ELSE Wake([old EXCEPT !.slugs = r.g,
                                           !.songs = Append(@, r.val)])
           /\ last' = Call(SerialTx, "enqueue", -1, index, -1, r.err,
                           OldSong(r.val))
    /\ OldFrame

\* queue.removeIndex, called by a command handler under the write lock
removeIndex(i) ==
    /\ OldRuns /\ old.mu = "free"
    /\ i + 1 \in DOMAIN old.songs
    /\ old' = [old EXCEPT !.slugs = decrement(@, old.songs[i + 1]),
                          !.songs = SubSeq(@, 1, i) \o
                                    SubSeq(@, i + 2, Len(@))]
    /\ last' = Call(SerialTx, "removeIndex", -1, i, -1,
                    IF old'.slugs.panic = "" THEN OK ELSE Panic,
                    OldSong(old.songs[i + 1]))
    /\ OldFrame

\* the context of the dequeue caller is cancelled
CancelOld ==
    /\ OldRuns /\ old.ctx = "live"
    /\ old' = [old EXCEPT !.ctx = "cancelled"]
    /\ last' = Call(SerialTx, "cancel", -1, -1, -1, OK, ZeroSong)
    /\ OldFrame

\* the function context.AfterFunc registered runs in its own goroutine
\* once the context is done: q.cond.Broadcast, which takes no lock
Broadcast ==
    /\ OldRuns /\ old.func = "armed" /\ old.ctx = "cancelled"
    /\ old' = Wake([old EXCEPT !.func = "ran"])
    /\ last' = Call(SerialTx, "Broadcast", -1, -1, -1, OK, ZeroSong)
    /\ OldFrame

\* the caller takes the write lock and calls dequeue, which registers
\* the broadcast with the context
dequeueCall ==
    /\ OldRuns /\ old.pc = "idle" /\ old.mu = "free"
    /\ old' = [old EXCEPT !.pc = "check", !.mu = "dequeue",
                          !.func = "armed"]
    /\ last' = Call(SerialTx, "dequeue", -1, -1, -1, OK, ZeroSong)
    /\ OldFrame

\* dequeue: the test of the for loop, and the body after the loop
dequeueCheck ==
    /\ OldRuns /\ old.pc = "check"
    /\ IF Len(old.songs) = 0
       THEN /\ old' = [old EXCEPT !.pc = "enter"]
            /\ last' = Call(SerialTx, "empty", -1, -1, -1, OK, ZeroSong)
       ELSE /\ old' = [old EXCEPT !.slugs = decrement(@, old.songs[1]),
                                  !.songs = Tail(@),
                                  !.ret = [err |-> OK, slug |-> old.songs[1]],
                                  !.pc = "done"]
            /\ last' = Call(SerialTx, "dequeued", -1, -1, -1,
                            IF old'.slugs.panic = "" THEN OK ELSE Panic,
                            OldSong(old.songs[1]))
    /\ OldFrame

\* dequeue: q.cond.Wait joins the notify list and gives up the lock
dequeueWait ==
    /\ OldRuns /\ old.pc = "enter"
    /\ old' = [old EXCEPT !.pc = "waiting", !.waiting = TRUE,
                          !.notified = FALSE, !.mu = "free"]
    /\ last' = Call(SerialTx, "Wait", -1, -1, -1, OK, ZeroSong)
    /\ OldFrame

\* dequeue: q.cond.Wait returns with the lock after a Signal or Broadcast,
\* and the context is looked at
dequeueWake ==
    /\ OldRuns /\ old.pc = "waiting" /\ old.notified /\ old.mu = "free"
    /\ old' = IF old.ctx = "cancelled"
              THEN [old EXCEPT !.waiting = FALSE, !.notified = FALSE,
                               !.mu = "dequeue", !.pc = "done",
                               !.ret = [err |-> ErrCanceled, slug |-> <<>>]]
              ELSE [old EXCEPT !.waiting = FALSE, !.notified = FALSE,
                               !.mu = "dequeue", !.pc = "check"]
    /\ last' = Call(SerialTx, "woken", -1, -1, -1, OK, ZeroSong)
    /\ OldFrame

\* dequeue returns: the deferred stop takes the broadcast back, the caller
\* gives up the lock, and calls again unless the context was cancelled
dequeueReturn ==
    /\ OldRuns /\ old.pc = "done"
    /\ old' = [old EXCEPT !.func = "none", !.mu = "free",
                          !.pc = IF old.ret.err = OK THEN "idle"
                                 ELSE "stopped"]
    /\ last' = Call(SerialTx, "return", -1, -1, -1, old.ret.err,
                    OldSong(old.ret.slug))
    /\ OldFrame

\* the steps of the goroutine that calls dequeue
dequeueStep ==
    dequeueCall \/ dequeueCheck \/ dequeueWait \/ dequeueWake \/ dequeueReturn

NextOld ==
    \/ \E a \in Archives : restore(a)
    \/ \E index \in zipfUint64 : enqueue(index)
    \/ \E i \in 0 .. (MaxOldLen - 1) : removeIndex(i)
    \/ CancelOld
    \/ Broadcast
    \/ dequeueCall
    \/ dequeueCheck
    \/ dequeueWait
    \/ dequeueWake
    \/ dequeueReturn

SpecOld == InitOld /\ [][NextOld]_vars

\* the Go scheduler runs every goroutine that can run: the caller of
\* dequeue and the goroutine of the registered broadcast; commands and
\* the cancellation come from outside and need not come
SpecOldFair ==
    InitOld /\ [][NextOld]_vars /\ WF_vars(dequeueStep) /\ WF_vars(Broadcast)

\* ------------------------------------------------ notions used by claims
\* slot ids of the pending songs (unset dequeued-at) among the records
PendingIds(songs) == {i \in DOMAIN songs : ~IsDequeued(songs[i])}

\* the head named by the records: smallest pending slot id, or the sentinel
SmallestPending(songs) ==
    IF PendingIds(songs) = {} THEN headNilID ELSE Min(PendingIds(songs))

\* a store content read inside a fresh transaction
AsSt(v) == [songs |-> v.songs, head |-> v.head, slugs |-> v.slugs,
            reads |-> {}, writes |-> {}]

\* the committed store and the view of every open transaction
Views == {AsSt(db)} \cup {AsSt(tx[x].st) : x \in {y \in Txs : IsOpen(y)}}

\* List(0, Count) of a view
ListAll(st) == List(st, 0, Count(st).val).val

\* slug and payload of each listed song
Faces(L) == [i \in 1 .. Len(L) |-> <<L[i].Slug, L[i].Payload>>]

RemoveAt(L, i) == SubSeq(L, 1, i - 1) \o SubSeq(L, i + 1, Len(L))
InsertAt(L, i, e) == SubSeq(L, 1, i - 1) \o <<e>> \o SubSeq(L, i, Len(L))

\* the records, head and slug index of two transaction states agree
SameData(s, t) == s.songs = t.songs /\ s.head = t.head /\ s.slugs = t.slugs

\* C1: a Dequeue in serial use returns the pending song with the smallest
\* slot id and leaves the other pending songs pending, so successive
\* Dequeues return strictly increasing slot ids; with no pending song it
\* fails with ErrQueueEmpty.
DequeueReturnsSmallestPending ==
    [][last'.op = "Dequeue" =>
        LET pre == tx[last'.tx].st
            post == tx'[last'.tx].st
            P == PendingIds(pre.songs)
        IN  IF P = {} THEN last'.err = ErrQueueEmpty
            ELSE /\ last'.err = OK
                 /\ last'.song.ID = Min(P)
                 /\ last'.song.Slug = pre.songs[Min(P)].Slug
                 /\ last'.song.Payload = pre.songs[Min(P)].Payload
                 /\ PendingIds(post.songs) = P \ {Min(P)}]_vars

\* C1 witness: three songs were dequeued one after the other and the next
\* Dequeue found the queue empty
DequeueDrainedWitness ==
    /\ last.op = "Dequeue" /\ last.err = ErrQueueEmpty
    /\ Cardinality(DOMAIN db.songs) >= 3
    /\ \A i \in DOMAIN db.songs : IsDequeued(db.songs[i])

\* C2: after a Move(id, p) of a pending song with 0 <= p < Count, the song
\* at index p of List(0, Count) has the slug and payload of the moved song.
MovePlacesSongAtPosition ==
    [][last'.op = "Move" =>
        LET pre == tx[last'.tx].st
            post == tx'[last'.tx].st
            id == last'.id
            p == last'.pos
            n == Count(pre).val
        IN  (id \in PendingIds(pre.songs) /\ 0 <= p /\ p < n) =>
                /\ last'.err = OK
                /\ Len(ListAll(post)) = n
                /\ ListAll(post)[p + 1].Slug = pre.songs[id].Slug
                /\ ListAll(post)[p + 1].Payload = pre.songs[id].Payload]_vars

\* C2 witness: a Move to the head of a queue that has a dequeued record in
\* front of the head and a removed slot between the pending songs
MoveAcrossGapWitness ==
    /\ last.op = "Move" /\ last.err = OK /\ last.pos = 0 /\ last.from > 0
    /\ LET st == tx[last.tx].st
       IN  /\ \E d \in DOMAIN st.songs : IsDequeued(st.songs[d])
           /\ \E g \in IdsTo(MaxLongId) : /\ g \notin DOMAIN st.songs
                             /\ st.head < g
                             /\ \E i \in PendingIds(st.songs) : g < i

\* C3: a successful Move changes the listing only by taking the moved song
\* out and inserting it at index p.
MoveIsRemoveThenInsert ==
    [][(last'.op = "Move" /\ last'.err = OK) =>
        LET before == ListAll(tx[last'.tx].st)
            after == ListAll(tx'[last'.tx].st)
            c == CHOOSE i \in 1 .. Len(before) : before[i].ID = last'.id
        IN  /\ \E i \in 1 .. Len(before) : before[i].ID = last'.id
            /\ Faces(after) = InsertAt(RemoveAt(Faces(before), c),
                                       last'.pos + 1, Faces(before)[c])]_vars

\* C3 witness: the first of at least three pending songs was moved to
\* position 2, past two other songs
MoveToTailWitness ==
    /\ last.op = "Move" /\ last.err = OK /\ last.from = 0 /\ last.pos = 2
    /\ Len(ListAll(tx[last.tx].st)) >= 3

\* C4: in serial use no two pending songs have the same slug.
PendingSlugsDistinct ==
    \A v \in Views : \A i, j \in PendingIds(v.songs) :
        i # j => v.songs[i].Slug # v.songs[j].Slug

\* C4 witness: the same word was drawn three times and all three songs are
\* pending
SameWordThriceWitness ==
    \E i, j, k \in PendingIds(db.songs) :
        /\ db.songs[i].Slug = <<"a">>
        /\ db.songs[j].Slug = <<"a", Dash, "1">>
        /\ db.songs[k].Slug = <<"a", Dash, "2">>

\* the slug index of a view is a bijection onto its pending songs
SlugIndexBijection(v) ==
    /\ \A i \in PendingIds(v.songs) :
          /\ v.songs[i].Slug \in DOMAIN v.slugs
          /\ v.slugs[v.songs[i].Slug] = i
          /\ FindBySlug(v, v.songs[i].Slug).err = OK
          /\ FindBySlug(v, v.songs[i].Slug).val = v.songs[i]
    /\ \A k \in DOMAIN v.slugs :
          /\ v.slugs[k] \in PendingIds(v.songs)
          /\ v.songs[v.slugs[k]].Slug = k

\* C5: after every committed transaction of serial use (and after every
\* call inside one) the slug index is a bijection onto the pending songs.
SlugIndexIsBijection == \A v \in Views : SlugIndexBijection(v)

\* C5 witness: a committed store in which a Move has put the song with
\* slug a-1 in front of the song with slug a
CommittedMoveWitness ==
    /\ last.op = "Commit" /\ last.err = OK
    /\ \E i, j \in PendingIds(db.songs) :
          /\ i < j
          /\ db.songs[i].Slug = <<"a", Dash, "1">>
          /\ db.songs[j].Slug = <<"a">>
    /\ \E d \in DOMAIN db.songs : IsDequeued(db.songs[d])

\* C6: in serial use the head pointer equals the smallest pending slot id,
\* or the sentinel when there is none.
HeadIsSmallestPending ==
    \A v \in Views : v.head = SmallestPending(v.songs)

\* C6 witness: the head song was removed while a dequeued record lies
\* before it and a pending song after it
RemoveHeadWitness ==
    /\ last.op = "Remove" /\ last.err = OK
    /\ LET st == tx[last.tx].st
       IN  /\ st.head > last.id
           /\ HeadKey \in st.writes
           /\ \E d \in DOMAIN st.songs : d < last.id /\ IsDequeued(st.songs[d])

\* C7: with transactions open concurrently, after every accepted commit
\* the head pointer of the store equals the smallest pending slot id, or the
\* sentinel when no song is pending.
CommittedHeadIsSmallestPending == db.head = SmallestPending(db.songs)

\* C8: a committed Dequeue never returns a song that another committed
\* Dequeue returned: not one of a transaction that committed while this one
\* was open, and not one the store already holds as dequeued or removed
\* (a song the committing transaction enqueued itself is in no other one).
NoSongDequeuedTwice ==
    [][(last'.op = "Commit" /\ last'.err = OK) =>
        LET t == tx[last'.tx]
        IN  /\ t.deq \cap t.peerDeq = {}
            /\ \A i \in t.deq : \/ i \in PendingIds(db.songs)
                                \/ \E e \in t.enq : e[1] = i]_vars

\* C8 witness: a transaction is open that dequeued the song a transaction
\* committed in the meantime has dequeued as well
DoubleDequeueWitness ==
    /\ last.op = "Commit" /\ last.err = OK
    /\ \E x \in Txs : IsOpen(x) /\ tx[x].deq \cap tx[x].peerDeq # {}

\* C9: when a transaction that enqueued a song commits, and a transaction
\* that committed while it was open enqueued a song under the same drawn
\* word, the two songs (while both pending) have different slugs and each
\* slug-index entry points at its own slot id.
ConcurrentEnqueuesGetDistinctSlugs ==
    [][(last'.op = "Commit" /\ last'.err = OK) =>
        \A e \in tx[last'.tx].enq, f \in tx[last'.tx].peerEnq :
            (/\ e[2] = f[2]
             /\ e[1] \in PendingIds(db'.songs)
             /\ f[1] \in PendingIds(db'.songs)) =>
                /\ db'.songs[e[1]].Slug # db'.songs[f[1]].Slug
                /\ db'.songs[e[1]].Slug \in DOMAIN db'.slugs
                /\ db'.slugs[db'.songs[e[1]].Slug] = e[1]
                /\ db'.songs[f[1]].Slug \in DOMAIN db'.slugs
                /\ db'.slugs[db'.songs[f[1]].Slug] = f[1]]_vars

\* C10: Move on a dequeued song fails with ErrSongDequeued, Move on an id
\* without a record fails with ErrSongNotFound, and neither writes.
MoveOfDequeuedOrMissingFails ==
    [][last'.op = "Move" =>
        LET pre == tx[last'.tx].st
            post == tx'[last'.tx].st
            id == last'.id
        IN  /\ (id \in DOMAIN pre.songs /\ IsDequeued(pre.songs[id])) =>
                  /\ last'.err = ErrSongDequeued
                  /\ SameData(pre, post) /\ post.writes = pre.writes
            /\ id \notin DOMAIN pre.songs =>
                  /\ last'.err = ErrSongNotFound
                  /\ SameData(pre, post) /\ post.writes = pre.writes]_vars

\* C11: Move of a pending song to a position below 0 or at or past Count
\* fails with ErrMoveOutOfBounds and changes no record, no slug-index entry
\* and not the head pointer.
MoveOutOfRangeFails ==
    [][last'.op = "Move" =>
        LET pre == tx[last'.tx].st
            post == tx'[last'.tx].st
            p == last'.pos
        IN  (/\ last'.id \in PendingIds(pre.songs)
             /\ p < 0 \/ p >= Count(pre).val
             /\ p # last'.from) =>
                /\ last'.err = ErrMoveOutOfBounds
                /\ SameData(pre, post)
                /\ post.writes = pre.writes]_vars

\* C11 witness: a Move to the position just past the last of two or more
\* pending songs, with a dequeued record in front of the head, was refused
MoveOutOfRangeWitness ==
    /\ last.op = "Move" /\ last.err = ErrMoveOutOfBounds
    /\ LET st == tx[last.tx].st
       IN  /\ last.id \in PendingIds(st.songs)
           /\ last.pos = Count(st).val
           /\ Count(st).val >= 2
           /\ \E d \in DOMAIN st.songs : IsDequeued(st.songs[d])

\* slug and payload of the pending songs of a view, with multiplicity
FaceCount(st, f) ==
    Cardinality({i \in PendingIds(st.songs) :
                    <<st.songs[i].Slug, st.songs[i].Payload>> = f})

\* C12: a successful Move keeps the set of occupied slot ids, the head
\* pointer, Count and the multiset of (slug, payload) pairs; it rewrites only
\* slots between the old and the new position of the song, both included;
\* and it writes nothing when the two positions are equal.
MoveKeepsSlots ==
    [][(last'.op = "Move" /\ last'.err = OK) =>
        LET pre == tx[last'.tx].st
            post == tx'[last'.tx].st
            c == last'.from
            p == last'.pos
            L == ListAll(pre)
            between == {L[i].ID : i \in (Min({c, p}) + 1) .. (Max({c, p}) + 1)}
        IN  /\ DOMAIN post.songs = DOMAIN pre.songs
            /\ post.head = pre.head
            /\ Count(post).val = Count(pre).val
            /\ \A i \in PendingIds(pre.songs) \cup PendingIds(post.songs) :
                  /\ i \in PendingIds(pre.songs) =>
                        FaceCount(post, <<pre.songs[i].Slug, pre.songs[i].Payload>>)
                        = FaceCount(pre, <<pre.songs[i].Slug, pre.songs[i].Payload>>)
                  /\ i \in PendingIds(post.songs) =>
                        FaceCount(pre, <<post.songs[i].Slug, post.songs[i].Payload>>)
                        = FaceCount(post, <<post.songs[i].Slug, post.songs[i].Payload>>)
            /\ \A i \in DOMAIN pre.songs :
                  post.songs[i] # pre.songs[i] => i \in between
            /\ post.writes \ pre.writes \subseteq
                  {SongKey(i) : i \in between}
                  \cup {SlugKey(pre.songs[i].Slug) : i \in between}
            /\ c = p => SameData(pre, post) /\ post.writes = pre.writes]_vars

\* C12 witness: with four pending songs the third was moved to position 1,
\* which leaves the first and the last slot alone
MoveInsideWitness ==
    /\ last.op = "Move" /\ last.err = OK /\ last.from = 2 /\ last.pos = 1
    /\ Len(ListAll(tx[last.tx].st)) = 4

\* C13: after a successful Remove of a pending song, FindByID of its id and
\* FindBySlug of its slug fail with ErrSongNotFound, Count is one less, and
\* the listing is the one before without that song: every other pending
\* song keeps its slot id, slug, payload and place.
RemoveTakesSongOut ==
    [][(/\ last'.op = "Remove" /\ last'.err = OK
        /\ last'.id \in PendingIds(tx[last'.tx].st.songs)) =>
        LET pre == tx[last'.tx].st
            post == tx'[last'.tx].st
            id == last'.id
            before == ListAll(pre)
            c == CHOOSE i \in 1 .. Len(before) : before[i].ID = id
        IN  /\ FindByID(post, id).err = ErrSongNotFound
            /\ FindBySlug(post, pre.songs[id].Slug).err = ErrSongNotFound
            /\ Count(post).val = Count(pre).val - 1
            /\ \E i \in 1 .. Len(before) : before[i].ID = id
            /\ ListAll(post) = RemoveAt(before, c)]_vars

\* C13 witness: the middle one of three pending songs was removed
RemoveMiddleWitness ==
    /\ last.op = "Remove" /\ last.err = OK
    /\ LET st == tx[last.tx].st
       IN  /\ last.id \notin DOMAIN st.songs
           /\ \E i, j \in PendingIds(st.songs) : i < last.id /\ last.id < j

\* C14: a Remove of the head song advances the head to the next pending
\* slot id, so Peek and Dequeue then return the song that was second; when
\* the removed song was the only pending one the head becomes the sentinel,
\* Empty reports true and Peek and Dequeue report ErrQueueEmpty.
RemoveHeadAdvancesHead ==
    [][(/\ last'.op = "Remove" /\ last'.err = OK
        /\ tx[last'.tx].st.head = last'.id) =>
        LET pre == tx[last'.tx].st
            post == tx'[last'.tx].st
            L == ListAll(pre)
        IN  IF Len(L) >= 2
            THEN /\ post.head = L[2].ID
                 /\ Empty(post).val = FALSE
                 /\ Peek(post).err = OK /\ Peek(post).val = L[2]
                 /\ Dequeue(post).err = OK
                 /\ Dequeue(post).val.ID = L[2].ID
                 /\ Dequeue(post).val.Slug = L[2].Slug
                 /\ Dequeue(post).val.Payload = L[2].Payload
            ELSE /\ post.head = headNilID
                 /\ Empty(post).val = TRUE
                 /\ Peek(post).err = ErrQueueEmpty
                 /\ Dequeue(post).err = ErrQueueEmpty]_vars

\* C14 witness: the head song was removed and the head went on to a slot
\* that is not the one right after it
RemoveHeadSkipsGapWitness ==
    /\ last.op = "Remove" /\ last.err = OK
    /\ LET st == tx[last.tx].st
       IN  /\ HeadKey \in st.writes
           /\ st.head > last.id + 1
           /\ last.id + 1 \notin DOMAIN st.songs

\* C15: Dequeue keeps the record it returns: after a successful Dequeue of
\* song s, FindByID(s.ID) returns s with a set dequeued-at, the slug index
\* has no entry for s.Slug, and s is not among the songs of List, Count,
\* Peek or IterateFromHead.
DequeueKeepsRecord ==
    [][(last'.op = "Dequeue" /\ last'.err = OK) =>
        LET pre == tx[last'.tx].st
            post == tx'[last'.tx].st
            s == last'.song
            listed == ListAll(post)
            iterated == IterateFromHead(post, 0).val
        IN  /\ FindByID(post, s.ID).err = OK
            /\ FindByID(post, s.ID).val = s
            /\ s.DequeuedAt # 0
            /\ s.Payload = pre.songs[s.ID].Payload
            /\ s.Slug \notin DOMAIN post.slugs
            /\ FindBySlug(post, s.Slug).err = ErrSongNotFound
            /\ \A i \in 1 .. Len(listed) : listed[i].ID # s.ID
            /\ \A i \in 1 .. Len(iterated) : iterated[i].ID # s.ID
            /\ Count(post).val = Cardinality(PendingIds(pre.songs)) - 1
            /\ Peek(post).err = OK => Peek(post).val.ID # s.ID]_vars

\* C15 witness: a Dequeue returned a song whose record is still stored,
\* behind an older dequeued record and in front of two pending songs
DequeueKeptWitness ==
    /\ last.op = "Dequeue" /\ last.err = OK
    /\ LET st == tx[last.tx].st
       IN  /\ last.song.ID \in DOMAIN st.songs
           /\ IsDequeued(st.songs[last.song.ID])
           /\ \E d \in DOMAIN st.songs :
                 d < last.song.ID /\ IsDequeued(st.songs[d])
           /\ Cardinality(PendingIds(st.songs)) >= 2

\* what LastDequeued answers in two views is the same
SameLastDequeued(s, t) ==
    /\ LastDequeued(s).err = LastDequeued(t).err
    /\ LastDequeued(s).val = LastDequeued(t).val

\* C16: LastDequeued fails with ErrSongNotFound on a store without a
\* dequeue; after a successful Dequeue it returns the song that Dequeue
\* returned, with the payload it was stored with and a set dequeued-at;
\* an Enqueue, a Commit and the next BeginTxn do not change its answer; and
\* a call of LastDequeued answers so and writes nothing.
LastDequeuedIsLatest ==
    [][LET pre == IF IsOpen(last'.tx) THEN tx[last'.tx].st ELSE AsSt(db)
           post == IF tx'[last'.tx].status = "open" THEN tx'[last'.tx].st
                   ELSE AsSt(db')
       IN  /\ (last'.op = "Dequeue" /\ last'.err = OK) =>
                 /\ LastDequeued(post).err = OK
                 /\ LastDequeued(post).val = last'.song
                 /\ last'.song.DequeuedAt # 0
                 /\ last'.song.Payload = pre.songs[last'.song.ID].Payload
           /\ (last'.op = "Enqueue" /\ last'.err = OK) =>
                 /\ SameLastDequeued(pre, post)
                 /\ (\A i \in DOMAIN pre.songs : ~IsDequeued(pre.songs[i])) =>
                       LastDequeued(post).err = ErrSongNotFound
           /\ (last'.op = "Commit" /\ last'.err = OK) =>
                 SameLastDequeued(pre, post)
           /\ last'.op = "BeginTxn" =>
                 /\ SameLastDequeued(pre, post)
                 /\ DOMAIN db.songs = {} =>
                       LastDequeued(post).err = ErrSongNotFound
           /\ last'.op = "LastDequeued" =>
                 /\ last'.err = LastDequeued(pre).err
                 /\ last'.song = LastDequeued(pre).val
                 /\ SameData(pre, post) /\ post.writes = pre.writes]_vars

\* C16 witness: LastDequeued returned the second of two dequeued songs
\* while a song enqueued after both dequeues is pending
LastDequeuedWitness ==
    /\ last.op = "LastDequeued" /\ last.err = OK
    /\ LET st == tx[last.tx].st
       IN  /\ \E d \in DOMAIN st.songs :
                 /\ IsDequeued(st.songs[d])
                 /\ d < last.song.ID
                 /\ st.songs[d].DequeuedAt < last.song.DequeuedAt
           /\ \E i \in PendingIds(st.songs) : last.song.ID < i

\* C17: when the head is the sentinel, Dequeue and Peek fail with
\* ErrQueueEmpty and leave head, records, slug index and write set alone.
EmptyQueueCallsFail ==
    [][(/\ last'.op \in {"Dequeue", "Peek"}
        /\ tx[last'.tx].st.head = headNilID) =>
        LET pre == tx[last'.tx].st
            post == tx'[last'.tx].st
        IN  /\ last'.err = ErrQueueEmpty
            /\ SameData(pre, post)
            /\ post.writes = pre.writes]_vars

\* C17 witness: Peek found the queue empty after one song was dequeued and
\* another slot was vacated
PeekEmptiedWitness ==
    /\ last.op = "Peek" /\ last.err = ErrQueueEmpty
    /\ \E d \in DOMAIN db.songs : IsDequeued(db.songs[d])
    /\ \E g \in IdsTo(MaxId) : g < seq /\ g \notin DOMAIN db.songs
    /\ PendingIds(db.songs) = {}

\* C18: Remove, Update and FindByID of a slot id without a record, and
\* FindBySlug of a slug without an index entry, fail with ErrSongNotFound and
\* leave head, records, slug index and write set alone.
UnknownSongCallsFail ==
    [][LET pre == tx[last'.tx].st
           post == tx'[last'.tx].st
       IN  (\/ /\ last'.op \in {"Remove", "Update", "FindByID"}
               /\ last'.id \notin DOMAIN pre.songs
            \/ /\ last'.op = "FindBySlug"
               /\ last'.slug \notin DOMAIN pre.slugs) =>
                /\ last'.err = ErrSongNotFound
                /\ SameData(pre, post)
                /\ post.writes = pre.writes]_vars

\* C18 witness: FindBySlug did not find the slug of a dequeued song while
\* another song is pending
FindFreedSlugWitness ==
    /\ last.op = "FindBySlug" /\ last.err = ErrSongNotFound
    /\ LET st == tx[last.tx].st
       IN  /\ \E d \in DOMAIN st.songs :
                 IsDequeued(st.songs[d]) /\ st.songs[d].Slug = last.slug
           /\ PendingIds(st.songs) # {}

\* C19: Peek returns the song that a Dequeue in the same state would
\* return (the pending song with the smallest slot id; ErrQueueEmpty when
\* Dequeue would fail), changes neither head nor records nor slug index nor
\* write set, and a Peek right after it returns the same.
PeekShowsNextDequeue ==
    [][last'.op = "Peek" =>
        LET pre == tx[last'.tx].st
            post == tx'[last'.tx].st
            d == Dequeue(pre)
        IN  /\ last'.err = d.err
            /\ last'.err = OK =>
                  /\ last'.song = pre.songs[SmallestPending(pre.songs)]
                  /\ last'.song.ID = d.val.ID
                  /\ last'.song.Slug = d.val.Slug
                  /\ last'.song.Payload = d.val.Payload
                  /\ last'.song.DequeuedAt = 0
            /\ SameData(pre, post)
            /\ post.writes = pre.writes
            /\ Peek(post).err = last'.err
            /\ Peek(post).val = last'.song]_vars

\* C19 witness: Peek returned a song that has a dequeued record in front
\* of it and a pending song behind it
PeekMiddleWitness ==
    /\ last.op = "Peek" /\ last.err = OK
    /\ LET st == tx[last.tx].st
       IN  /\ \E d \in DOMAIN st.songs :
                 d < last.song.ID /\ IsDequeued(st.songs[d])
           /\ \E i \in PendingIds(st.songs) : last.song.ID < i

\* C20: a successful Update(id, content) puts content in the payload of the
\* record at id and changes nothing else: the record keeps its slot id,
\* slug, queued-at and dequeued-at, the listing keeps its order, and the
\* head, the slug index and every other record are unchanged.
UpdateReplacesPayloadOnly ==
    [][(last'.op = "Update" /\ last'.err = OK) =>
        LET pre == tx[last'.tx].st
            post == tx'[last'.tx].st
            id == last'.id
        IN  /\ DOMAIN post.songs = DOMAIN pre.songs
            /\ post.songs[id].Payload = last'.song.Payload
            /\ post.songs[id].ID = pre.songs[id].ID
            /\ post.songs[id].Slug = pre.songs[id].Slug
            /\ post.songs[id].QueuedAt = pre.songs[id].QueuedAt
            /\ post.songs[id].DequeuedAt = pre.songs[id].DequeuedAt
            /\ \A j \in DOMAIN pre.songs \ {id} : post.songs[j] = pre.songs[j]
            /\ post.head = pre.head
            /\ post.slugs = pre.slugs
            /\ Len(ListAll(post)) = Len(ListAll(pre))
            /\ \A i \in 1 .. Len(ListAll(pre)) :
                  ListAll(post)[i].ID = ListAll(pre)[i].ID
            /\ post.writes \ pre.writes \subseteq {SongKey(id)}]_vars

\* C20 witness: the payload of a dequeued record was updated while a song
\* is pending
UpdateDequeuedWitness ==
    /\ last.op = "Update" /\ last.err = OK /\ last.song.Payload = "q"
    /\ LET st == tx[last.tx].st
       IN  /\ IsDequeued(st.songs[last.id])
           /\ st.songs[last.id].Payload = "q"
           /\ \E i \in PendingIds(st.songs) : st.songs[i].Payload = "p"

\* C21: a successful Enqueue returns a slot id greater than every slot id
\* of the store, puts the new song last in List(0, Count), makes Count one
\* more, sets the head to the new id exactly when the head was the sentinel,
\* and changes no existing record and no existing slug-index entry.
EnqueueAppendsAtTail ==
    [][(last'.op = "Enqueue" /\ last'.err = OK) =>
        LET pre == tx[last'.tx].st
            post == tx'[last'.tx].st
            id == last'.id
        IN  /\ \A j \in DOMAIN pre.songs : j < id
            /\ DOMAIN post.songs = DOMAIN pre.songs \cup {id}
            /\ post.songs[id].ID = id
            /\ post.songs[id].Payload \in Payloads
            /\ ListAll(post) = Append(ListAll(pre), post.songs[id])
            /\ Count(post).val = Count(pre).val + 1
            /\ post.head = IF pre.head = headNilID THEN id ELSE pre.head
            /\ \A j \in DOMAIN pre.songs : post.songs[j] = pre.songs[j]
            /\ \A k \in DOMAIN pre.slugs :
                  k \in DOMAIN post.slugs /\ post.slugs[k] = pre.slugs[k]
            /\ DOMAIN post.slugs = DOMAIN pre.slugs \cup {post.songs[id].Slug}]_vars

\* C21 witness: a song was enqueued into a queue that had been drained, and
\* became the head behind a dequeued record
EnqueueAfterDrainWitness ==
    /\ last.op = "Enqueue" /\ last.err = OK
    /\ LET st == tx[last.tx].st
       IN  /\ st.head = last.id
           /\ \E d \in DOMAIN st.songs : IsDequeued(st.songs[d])

\* the i-th smallest element of a set of slot ids
Nth(S, i) == CHOOSE e \in S : Cardinality({d \in S : d < e}) = i - 1

\* the pending records of a view in increasing slot-id order
PendingInOrder(st) ==
    LET P == PendingIds(st.songs)
    IN  [i \in 1 .. Cardinality(P) |-> st.songs[Nth(P, i)]]

\* C22: List(offset, limit) with offset >= 0 and limit >= 0 returns exactly
\* the pending songs at positions offset .. offset+limit-1 counted from the
\* head in increasing slot-id order, fewer when the queue is shorter, none
\* when offset >= Count, and an empty result without error on an empty queue.
ListReturnsPendingWindow ==
    [][last'.op = "List" =>
        LET pre == tx[last'.tx].st
            P == PendingInOrder(pre)
            lo == last'.offset + 1
            hi == Min({last'.offset + last'.limit, Len(P)})
        IN  /\ last'.err = OK
            /\ last'.list = SubSeq(P, lo, hi)
            /\ \A i \in 1 .. Len(last'.list) - 1 :
                  last'.list[i].ID < last'.list[i + 1].ID
            /\ last'.offset >= Count(pre).val => last'.list = <<>>
            /\ Empty(pre).val => last'.list = <<>>
            /\ SameData(pre, tx'[last'.tx].st)]_vars

\* C22 witness: a List with offset 1 and limit 1 returned the middle one of
\* three pending songs
ListMiddleWitness ==
    /\ last.op = "List" /\ last.offset = 1 /\ last.limit = 1
    /\ Len(last.list) = 1
    /\ Cardinality(PendingIds(tx[last.tx].st.songs)) = 3

\* C23: in every serial state Count is the number of pending songs, no
\* dequeued record is counted or listed, Empty is true exactly when Count is
\* 0, and a store without records has Count 0 and Empty true.
CountIsNumberOfPending ==
    /\ \A v \in Views :
          /\ Count(v).err = OK /\ Empty(v).err = OK
          /\ Count(v).val = Cardinality(PendingIds(v.songs))
          /\ \A i \in 1 .. Len(ListAll(v)) : ~IsDequeued(ListAll(v)[i])
          /\ Empty(v).val <=> Count(v).val = 0
          /\ v.songs = <<>> => Count(v).val = 0 /\ Empty(v).val
    /\ last.op = "Count" =>
          last.n = Cardinality(PendingIds(tx[last.tx].st.songs))
    /\ last.op = "Empty" =>
          (last.flag <=> PendingIds(tx[last.tx].st.songs) = {})

\* C23 witness: Count returned 1 on a view holding two dequeued records and
\* one pending song
CountSkipsDequeuedWitness ==
    /\ last.op = "Count" /\ last.n = 1
    /\ Cardinality(DOMAIN tx[last.tx].st.songs) = 3

\* C24: IterateFromHead calls f on the pending songs in strictly increasing
\* slot-id order, the sequence List(0, Count) returns, calls f on no further
\* song once f returned false, and calls f zero times on an empty queue.
IterateVisitsPendingInOrder ==
    [][last'.op = "IterateFromHead" =>
        LET pre == tx[last'.tx].st
            all == ListAll(pre)
            n == IF last'.stopAt = 0 THEN Len(all)
                 ELSE Min({last'.stopAt, Len(all)})
        IN  /\ last'.err = OK
            /\ all = PendingInOrder(pre)
            /\ last'.list = SubSeq(all, 1, n)
            /\ \A i \in 1 .. Len(last'.list) - 1 :
                  last'.list[i].ID < last'.list[i + 1].ID
            /\ pre.head = headNilID => last'.list = <<>>
            /\ SameData(pre, tx'[last'.tx].st)]_vars

\* C24 witness: f returned false on the second of three pending songs and
\* was called on two songs
IterateStoppedWitness ==
    /\ last.op = "IterateFromHead" /\ last.stopAt = 2
    /\ Len(last.list) = 2
    /\ Cardinality(PendingIds(tx[last.tx].st.songs)) = 3

\* C25: the slot ids returned by Enqueue are pairwise distinct and strictly
\* increasing over the whole life of the store: seq, the first id not handed
\* out so far, never goes down, over Close and OpenQueue and over a crash
\* too; every Enqueue, whatever becomes of its transaction, returns an id at
\* or above it and leaves it above that id; every record has an id below it.
SlotIdsNeverReused ==
    [][/\ seq' >= seq
       /\ lease' >= seq'
       /\ \A i \in DOMAIN db'.songs : i < seq'
       /\ last'.op = "Enqueue" =>
             /\ last'.id >= seq
             /\ last'.id < seq'
             /\ \A i \in DOMAIN db.songs \cup DOMAIN tx[last'.tx].st.songs :
                   i < last'.id]_vars

\* C25 witness: an Enqueue returned an id above a committed one after a
\* Close left a block that starts off the multiples of Bandwidth
EnqueueAfterReopenWitness ==
    /\ last.op = "Enqueue" /\ last.err = OK
    /\ lease % Bandwidth # 0
    /\ \E i \in DOMAIN db.songs : i < last.id

\* C27: OpenQueue on a store without version marker writes the running
\* version and succeeds; with the running version as marker it succeeds and
\* leaves the marker; with another marker it fails with ErrVersionMismatch,
\* returns no handle and leaves the marker.
OpenQueueChecksVersion ==
    [][last'.op = "OpenQueue" =>
        /\ marker = NoMarker =>
              last'.err = OK /\ marker' = version /\ handle' = "open"
        /\ marker = version =>
              last'.err = OK /\ marker' = marker /\ handle' = "open"
        /\ marker \notin {NoMarker, version} =>
              /\ last'.err = ErrVersionMismatch
              /\ marker' = marker
              /\ handle' = "closed"]_vars

\* C27 witness: OpenQueue failed on a store marked by another version
OpenOtherVersionWitness ==
    /\ last.op = "OpenQueue" /\ last.err = ErrVersionMismatch
    /\ marker = version + 1
    /\ handle = "closed"

\* what the calls of handle y can show of the store: the records, head and
\* slug index of its transaction
SeenData(y) == [songs |-> tx[y].st.songs, head |-> tx[y].st.head,
                slugs |-> tx[y].st.slugs]

\* the same with the slot id the next Enqueue would return
SeenAll(y) == [data |-> SeenData(y), nextId |-> SequenceNext(seq, lease).val]

\* a step that is not a successful Commit
NotCommitted(l) == ~(l.op = "Commit" /\ l.err = OK)

CodecRoundTrip ==
    /\ wire.phase = "data" => wire.err = OK
    /\ wire.phase = "decoded" =>
          /\ wire.err = OK
          /\ wire.out.ID = wire.song.ID
          /\ wire.out.Slug = wire.song.Slug
          /\ TimeEqual(wire.out.QueuedAt, wire.song.QueuedAt)
          /\ TimeEqual(wire.out.DequeuedAt, wire.song.DequeuedAt)
          /\ wire.out.Duration = wire.song.Duration
          /\ wire.out.UserID = wire.song.UserID
          /\ wire.out.Title = wire.song.Title
          /\ wire.out.SongURL = wire.song.SongURL
          /\ wire.out.ThumbnailURL = wire.song.ThumbnailURL
          /\ IsZero(wire.song.QueuedAt) => wire.out.QueuedAt = ZeroTime
          /\ IsZero(wire.song.DequeuedAt) => wire.out.DequeuedAt = ZeroTime

\* C28 witness: a song with an empty title, a queued-at in a zone off the
\* minute and no dequeued-at has been encoded and decoded
CodecDecodedWitness ==
    /\ wire.phase = "decoded"
    /\ wire.song.Title = <<>> /\ wire.song.UserID # <<>>
    /\ wire.song.QueuedAt.offset = 1172
    /\ IsZero(wire.song.DequeuedAt)
    /\ wire.song.ID < 0
    /\ Len(wire.data) = 48 + 20 + 6

\* the slugs among keys that hold the word w: w bare or w with a numeric
\* suffix
HeldBy(w, keys) ==
    {k \in keys :
        \/ k = w
        \/ /\ Len(k) > Len(w) + 1
           /\ HasPrefix(k, w)
           /\ k[Len(w) + 1] = Dash
           /\ Atoi(SubSeq(k, Len(w) + 2, Len(k))) >= 1}

\* the numeric suffix of a slug that holds w, 0 for the bare word
SuffixOf(w, k) == IF k = w THEN 0 ELSE Atoi(SubSeq(k, Len(w) + 2, Len(k)))

\* the slug the dedupe rule gives the word w when keys are the slugs held
RuleSlug(w, keys) ==
    IF HeldBy(w, keys) = {} THEN w
    ELSE w \o <<Dash>>
           \o Itoa(1 + Max({SuffixOf(w, k) : k \in HeldBy(w, keys)}))

\* the candidate word drawn by the Enqueue that returned id in transaction t
CandidateOf(t, id) == (CHOOSE e \in t.enq : e[1] = id)[2]

\* C29: the slug of a newly enqueued song follows the dedupe rule, also
\* when one word of the list is a prefix of another: the bare candidate
\* when no pending song holds the candidate word bare or with a numeric
\* suffix, and otherwise candidate-(m+1), m being the largest numeric suffix
\* among the pending slugs of that word (0 if only the bare word is held).
SlugFollowsDedupeRule ==
    [][(last'.op = "Enqueue" /\ last'.err = OK) =>
        LET pre == tx[last'.tx].st
            post == tx'[last'.tx].st
            w == CandidateOf(tx'[last'.tx], last'.id)
        IN  post.songs[last'.id].Slug = RuleSlug(w, DOMAIN pre.slugs)]_vars

\* the slug the prefix scan gives: every key that starts with w counts
ScanSlug(w, keys) ==
    LET found == {k \in keys : HasPrefix(k, w)}
    IN  IF found = {} THEN w
        ELSE w \o <<Dash>>
               \o Itoa(1 + Max({DedupeNumber(k) : k \in found} \cup {0}))

\* C30: the slug assigned by Enqueue is a function of the candidate word
\* and the slug-index contents only, whatever records of earlier enqueues,
\* dequeues, removes and moves the store holds, and a word whose holders
\* have all been dequeued is assigned bare again.
SlugDependsOnIndexOnly ==
    [][(last'.op = "Enqueue" /\ last'.err = OK) =>
        LET pre == tx[last'.tx].st
            post == tx'[last'.tx].st
            w == CandidateOf(tx'[last'.tx], last'.id)
            holders == {i \in DOMAIN pre.songs : pre.songs[i].Slug = w}
        IN  /\ post.songs[last'.id].Slug = ScanSlug(w, DOMAIN pre.slugs)
            /\ (/\ holders # {}
                /\ \A i \in holders : IsDequeued(pre.songs[i])
                /\ \A i \in PendingIds(pre.songs) :
                      pre.songs[i].Slug \notin HeldBy(w, {pre.songs[i].Slug}))
               => post.songs[last'.id].Slug = w]_vars

\* the function part of C30 alone
SlugIsFunctionOfIndex ==
    [][(last'.op = "Enqueue" /\ last'.err = OK) =>
        tx'[last'.tx].st.songs[last'.id].Slug
            = ScanSlug(CandidateOf(tx'[last'.tx], last'.id),
                       DOMAIN tx[last'.tx].st.slugs)]_vars

\* C31: in every reachable state the slot id stored inside each record is
\* the slot id of the key it is stored under, for pending and dequeued
\* records alike, in the committed store and in every open transaction.
RecordIdIsKey ==
    \A v \in Views : \A i \in DOMAIN v.songs : v.songs[i].ID = i

\* C31 witness: a Move has carried a song over two slots in a store that
\* also holds a dequeued record
MoveOverTwoWitness ==
    /\ last.op = "Move" /\ last.err = OK
    /\ last.pos - last.from >= 2
    /\ \E d \in DOMAIN tx[last.tx].st.songs :
          IsDequeued(tx[last.tx].st.songs[d])

\* C32: a slug is a stable handle across reordering: for every pending
\* song, FindBySlug of its slug returns the same payload after a successful
\* Move, of that song or of another, as before it.
SlugStableAcrossMove ==
    [][(last'.op = "Move" /\ last'.err = OK) =>
        LET pre == tx[last'.tx].st
            post == tx'[last'.tx].st
        IN  \A i \in PendingIds(pre.songs) :
                LET slug == pre.songs[i].Slug
                    before == FindBySlug(pre, slug)
                    after == FindBySlug(post, slug)
                IN  /\ before.err = OK /\ after.err = OK
                    /\ before.val.Payload = pre.songs[i].Payload
                    /\ after.val.Payload = before.val.Payload
                    /\ after.val.Slug = slug
                    /\ ~IsDequeued(after.val)]_vars

\* C32 witness: a Move changed the slot of a song while the queue held
\* songs of different payloads
MoveDifferentPayloadsWitness ==
    /\ last.op = "Move" /\ last.err = OK
    /\ last.from >= 0 /\ last.from # last.pos
    /\ LET st == tx[last.tx].st
       IN  \E i, j \in PendingIds(st.songs) :
              st.songs[i].Payload # st.songs[j].Payload

\* C33: Remove of a record that was already dequeued deletes only that
\* record: head and slug index are unchanged, and a pending song that was
\* later assigned the same slug stays reachable through FindBySlug.
RemoveDequeuedDeletesOnlyRecord ==
    [][(/\ last'.op = "Remove" /\ last'.err = OK
        /\ IsDequeued(tx[last'.tx].st.songs[last'.id])) =>
        LET pre == tx[last'.tx].st
            post == tx'[last'.tx].st
        IN  /\ post.songs = Without(pre.songs, last'.id)
            /\ post.head = pre.head
            /\ post.slugs = pre.slugs
            /\ \A i \in PendingIds(pre.songs) :
                  /\ FindBySlug(post, pre.songs[i].Slug).err = OK
                  /\ FindBySlug(post, pre.songs[i].Slug).val = pre.songs[i]]_vars

\* C33 witness: a dequeued record was removed while a pending song held the
\* slug the record had
RemoveDequeuedSameSlugWitness ==
    /\ last.op = "Remove" /\ last.err = OK
    /\ last.id \in DOMAIN db.songs /\ IsDequeued(db.songs[last.id])
    /\ LET st == tx[last.tx].st
       IN  \E i \in PendingIds(st.songs) :
              st.songs[i].Slug = db.songs[last.id].Slug

\* pending songs of the committed store that user u enqueued
PendingOf(u) ==
    {i \in PendingIds(db.songs) : db.songs[i].Payload = u}

\* C34: the playback loop keeps consuming for as long as its context is not
\* cancelled: it leaves the polling loop only on cancellation, also after a
\* Dequeue, List or Commit of an earlier iteration has failed.
LoopLeavesOnlyOnCancel ==
    loop.pc = "returned" => loop.cancelled

\* C35: after every completed command handler and every completed loop
\* iteration userCounts[u] is the number of pending songs u enqueued, so a
\* user's Enqueue is refused only when the user holds userLimit pending
\* songs or more.
UserCountsMatchPending ==
    (cmd.pc = "idle" /\ loop.pc \in {"top", "sleep", "returned"}) =>
        /\ \A u \in Users : userCounts[u] = Cardinality(PendingOf(u))
        /\ (last.op = "cmdEnqueue" /\ last.err = ErrUserLimit) =>
              Cardinality(PendingOf(last.song.Payload)) >= userLimit


\* C36: in the predecessor queue a dequeue(ctx) that found the queue empty
\* returns once its context is cancelled, whether the cancellation came
\* before the call, between the emptiness check and the wait, or during
\* the wait.
DequeueReturnsOnCancel ==
    (old.phase = "run" /\ old.pc \in {"check", "enter", "waiting"}
        /\ old.ctx = "cancelled")
      ~> (old.pc \in {"done", "idle", "stopped"} \/ old.slugs.panic # "")

\* C37: after a restore of archived songs and any next and decrement
\* calls, next never returns a slug that a song still in the queue holds.
NextSlugNotHeld ==
    [][(last'.op = "enqueue" /\ last'.err = OK) =>
          \A i \in DOMAIN old.songs : old.songs[i] # last'.song.Slug]_vars

\* next hands out again, with a number, a word that archived songs brought
\* in and of which one holder has left the queue since
NextAfterRestoreAndDecrementWitness ==
    /\ last.op = "enqueue" /\ last.err = OK
    /\ Len(old.archive) = 2
    /\ \E i \in DOMAIN old.archive :
          /\ HasPrefix(last.song.Slug, SplitN(old.archive[i])[1] \o <<Dash>>)
          /\ \A j \in DOMAIN old.songs : old.songs[j] # old.archive[i]
    /\ Len(old.songs) = 2

\* C38: the index next draws from its Zipf source is a valid index of the
\* word list, 0 <= index < len(slugs).
ZipfIndexValid ==
    last.op = "enqueue" => (0 <= last.pos /\ last.pos < Len(slugs))

====
